---- MODULE Spec2Model ----
(***************************************************************************)
(* helm-chart-bumper: the semver change engine (internal/semverutil,       *)
(* internal/chart), the directive scanner (internal/directives) and the    *)
(* YAML document model with its path resolver (internal/yamlutil).         *)
(*                                                                         *)
(* Texts are sequences of one-token strings: a digit, ".", "v", " ", ...   *)
(* so that parsing and formatting are modelled by what they do.            *)
(***************************************************************************)
EXTENDS Integers, Sequences, FiniteSets, TLC

VARIABLES
    svOp,      \* semver engine: the function that is called
    svA,       \* Compare: a            / BumpChartVersion: current
    svB,       \* Compare: b
    svLvl,     \* BumpChartVersion: lvl
    svBase,    \* ComputeChangeLevel: base Meta
    svCur,     \* ComputeChangeLevel: cur Meta
    svPc,      \* "call" before the function ran, "done" after
    svRet,     \* the value returned
    lines,     \* scanner: the lines of the file that is scanned
    yf,        \* the same text as yamlutil parses it (ParseBytes)
    lineNo,    \* scanner: the number of lines read
    stack,     \* scanner: the pathStack
    pending,   \* scanner: the annotation waiting for its line, or NoDirective
    info,      \* scanner: the lineInfo of the last content line
    out,       \* scanner: the directives found
    scanPc,    \* scanner: "scan" in the loop, "done" or "error" after return
    scanErr,   \* scanner: the error returned
    docText,   \* document: the bytes that were parsed
    doc,       \* document: the File (Value and CM)
    calls,     \* document: the number of calls made on it
    last,      \* document: the last call, the File before it, what it returned
    prev,      \* document: the call before the last
    rendered,  \* document: the text Render returned, once it was called
    mainFlags, \* main: --write, --update-images, --update-deps, GITHUB_OUTPUT set
    mainEnv,   \* main: the base chart, the files at the start, the registries
    mainDisk,  \* main: the bytes of Chart.yaml and values.yaml on disk
    mainPc,    \* main: the step that runs next
    mainRun,   \* main: its local variables
    mainWrites, \* main: the os.WriteFile calls so far
    mainStdout, \* main: the texts printed to stdout
    mainOutput \* main: the lines appended to the GITHUB_OUTPUT file

semverVars == <<svOp, svA, svB, svLvl, svBase, svCur, svPc, svRet>>

scanVars == <<lines, yf, lineNo, stack, pending, info, out, scanPc, scanErr>>

docVars == <<docText, doc, calls, last, prev, rendered>>

mainVars ==
    <<mainFlags, mainEnv, mainDisk, mainPc, mainRun, mainWrites, mainStdout, mainOutput>>

vars == <<semverVars, scanVars, docVars, mainVars>>

-----------------------------------------------------------------------------
(* Text helpers (Go's strings and strconv packages).                       *)

Digits == <<"0", "1", "2", "3", "4", "5", "6", "7", "8", "9">>

IsDigit(c) == \E i \in 1..10 : Digits[i] = c

DigitVal(c) == (CHOOSE i \in 1..10 : Digits[i] = c) - 1

IsSpace(c) == c \in {" ", "\t"}

RECURSIVE TrimLeft(_)
TrimLeft(s) ==
    IF s # <<>> /\ IsSpace(Head(s)) THEN TrimLeft(Tail(s)) ELSE s

RECURSIVE TrimRight(_)
TrimRight(s) ==
    IF s # <<>> /\ IsSpace(s[Len(s)])
    THEN TrimRight(SubSeq(s, 1, Len(s) - 1))
    ELSE s

TrimSpace(s) == TrimRight(TrimLeft(s))

HasPrefix(s, p) == Len(s) >= Len(p) /\ SubSeq(s, 1, Len(p)) = p

TrimPrefix(s, p) ==
    IF HasPrefix(s, p) THEN SubSeq(s, Len(p) + 1, Len(s)) ELSE s

\* Index of the first occurrence of token c in s, 0 when there is none.
IndexByte(s, c) ==
    IF \E i \in 1..Len(s) : s[i] = c
    THEN CHOOSE i \in 1..Len(s) : s[i] = c /\ \A j \in 1..(i - 1) : s[j] # c
    ELSE 0

\* strings.Split(s, sep) for a one-token separator.
RECURSIVE Split(_, _)
Split(s, sep) ==
    LET i == IndexByte(s, sep)
    IN  IF i = 0
        THEN <<s>>
        ELSE <<SubSeq(s, 1, i - 1)>> \o Split(SubSeq(s, i + 1, Len(s)), sep)

RECURSIVE DigitsVal(_)
DigitsVal(s) ==
    IF s = <<>> THEN 0
    ELSE 10 * DigitsVal(SubSeq(s, 1, Len(s) - 1)) + DigitVal(s[Len(s)])

\* strconv.Atoi: an optional sign, then one or more decimal digits.
Atoi(s) ==
    LET signed == s # <<>> /\ Head(s) \in {"+", "-"}
        body   == IF signed THEN Tail(s) ELSE s
    IN  IF body = <<>> \/ \E i \in 1..Len(body) : ~IsDigit(body[i])
        THEN [ok |-> FALSE, n |-> 0]
        ELSE [ok |-> TRUE,
              n  |-> IF signed /\ Head(s) = "-"
                     THEN 0 - DigitsVal(body) ELSE DigitsVal(body)]

RECURSIVE NatText(_)
NatText(n) ==
    IF n < 10 THEN <<Digits[n + 1]>>
    ELSE NatText(n \div 10) \o <<Digits[(n % 10) + 1]>>

\* strconv.Itoa / fmt's %d.
Itoa(n) == IF n < 0 THEN <<"-">> \o NatText(0 - n) ELSE NatText(n)

-----------------------------------------------------------------------------
(* internal/semverutil                                                     *)

NoChange == 0
PatchChange == 1
MinorChange == 2
MajorChange == 3

ChangeLevels == {NoChange, PatchChange, MinorChange, MajorChange}

Max(a, b) == IF a > b THEN a ELSE b

NoVersion == [Major |-> 0, Minor |-> 0, Patch |-> 0]

Parse(text) ==
    LET s     == TrimPrefix(TrimSpace(text), <<"v">>)
        parts == Split(s, ".")
    IN  IF Len(parts) # 3
        THEN [ok |-> FALSE, v |-> NoVersion]
        ELSE LET maj == Atoi(parts[1])
                 min == Atoi(parts[2])
                 pat == Atoi(parts[3])
             IN  IF ~maj.ok \/ ~min.ok \/ ~pat.ok
                 THEN [ok |-> FALSE, v |-> NoVersion]
                 ELSE [ok |-> TRUE,
                       v  |-> [Major |-> maj.n, Minor |-> min.n, Patch |-> pat.n]]

\* A mutant of Compare: the minor tier is looked at before the major tier.
CompareMinorFirst(a0, b0) ==
    LET a  == TrimSpace(a0)
        b  == TrimSpace(b0)
        va == Parse(a)
        vb == Parse(b)
    IN  IF a = b THEN NoChange
        ELSE IF ~va.ok \/ ~vb.ok THEN NoChange
        ELSE IF va.v.Minor # vb.v.Minor THEN MinorChange
        ELSE IF va.v.Major # vb.v.Major THEN MajorChange
        ELSE IF va.v.Patch # vb.v.Patch THEN PatchChange
        ELSE NoChange

Compare(a0, b0) ==
    LET a  == TrimSpace(a0)
        b  == TrimSpace(b0)
        va == Parse(a)
        vb == Parse(b)
    IN  IF a = b THEN NoChange
        ELSE IF ~va.ok \/ ~vb.ok THEN NoChange
        ELSE IF va.v.Major # vb.v.Major THEN MajorChange
        ELSE IF va.v.Minor # vb.v.Minor THEN MinorChange
        ELSE IF va.v.Patch # vb.v.Patch THEN PatchChange
        ELSE NoChange

Dot3(x, y, z) == Itoa(x) \o <<".">> \o Itoa(y) \o <<".">> \o Itoa(z)

\* A mutant of BumpChartVersion: a minor bump keeps the patch number.
BumpKeepsPatch(current, lvl) ==
    LET p == Parse(current)
    IN  IF ~p.ok THEN [ok |-> FALSE, text |-> <<>>]
        ELSE [ok   |-> TRUE,
              text |-> CASE lvl = MajorChange -> Dot3(p.v.Major + 1, 0, 0)
                         [] lvl = MinorChange -> Dot3(p.v.Major, p.v.Minor + 1, p.v.Patch)
                         [] lvl = PatchChange -> Dot3(p.v.Major, p.v.Minor, p.v.Patch + 1)
                         [] OTHER -> Dot3(p.v.Major, p.v.Minor, p.v.Patch)]

BumpChartVersion(current, lvl) ==
    LET p == Parse(current)
    IN  IF ~p.ok THEN [ok |-> FALSE, text |-> <<>>]
        ELSE [ok   |-> TRUE,
              text |-> CASE lvl = MajorChange -> Dot3(p.v.Major + 1, 0, 0)
                         [] lvl = MinorChange -> Dot3(p.v.Major, p.v.Minor + 1, 0)
                         [] lvl = PatchChange -> Dot3(p.v.Major, p.v.Minor, p.v.Patch + 1)
                         [] OTHER -> Dot3(p.v.Major, p.v.Minor, p.v.Patch)]

-----------------------------------------------------------------------------
(* internal/chart                                                          *)

\* baseDeps[d.Name] = d.Version over base.Dependencies: the last entry of a
\* name is the one the map keeps.
BaseDepHas(deps, name) == \E i \in 1..Len(deps) : deps[i].Name = name

BaseDepVersion(deps, name) ==
    LET i == CHOOSE k \in 1..Len(deps) :
                 /\ deps[k].Name = name
                 /\ \A j \in (k + 1)..Len(deps) : deps[j].Name # name
    IN  deps[i].Version

RECURSIVE FoldDeps(_, _, _, _)
FoldDeps(baseDeps, curDeps, i, lvl) ==
    IF i > Len(curDeps) THEN lvl
    ELSE LET d == curDeps[i]
         IN  FoldDeps(baseDeps, curDeps, i + 1,
                 IF BaseDepHas(baseDeps, d.Name)
                 THEN Max(lvl, Compare(BaseDepVersion(baseDeps, d.Name), d.Version))
                 ELSE lvl)

\* A mutant of ComputeChangeLevel: the dependencies are never looked at.
ComputeChangeLevelAppOnly(base, cur) == Compare(base.AppVersion, cur.AppVersion)

ComputeChangeLevel(base, cur) ==
    FoldDeps(base.Dependencies, cur.Dependencies, 1,
             Compare(base.AppVersion, cur.AppVersion))

-----------------------------------------------------------------------------
(* internal/imageresolver: the choice of a tag among the tags a registry   *)
(* lists.  A tag is a sequence of one-character tokens.  The versions are  *)
(* those of Masterminds/semver (NewVersion, LessThan, Equal, Check), the   *)
(* regular expressions those of Go's regexp on the patterns used here.     *)

\* The characters of a tag, in byte order (sort.Strings compares bytes).
ByteOrder ==
    <<"+", "-", ".", "0", "1", "2", "3", "4", "5", "6", "7", "8", "9",
      "a", "b", "c", "d", "e", "f", "g", "h", "i", "j", "k", "l", "m",
      "n", "o", "p", "q", "r", "s", "t", "u", "v", "w", "x", "y", "z">>

ByteOf(c) == CHOOSE i \in 1..Len(ByteOrder) : ByteOrder[i] = c

\* a < b for Go strings.
RECURSIVE StringLess(_, _)
StringLess(a, b) ==
    IF b = <<>> THEN FALSE
    ELSE IF a = <<>> THEN TRUE
    ELSE IF Head(a) # Head(b) THEN ByteOf(Head(a)) < ByteOf(Head(b))
    ELSE StringLess(Tail(a), Tail(b))

\* sort.Strings: s with t put at its place, s being sorted already.
RECURSIVE InsertString(_, _)
InsertString(s, t) ==
    IF s = <<>> THEN <<t>>
    ELSE IF StringLess(t, Head(s)) THEN <<t>> \o s
    ELSE <<Head(s)>> \o InsertString(Tail(s), t)

RECURSIVE SortStrings(_)
SortStrings(s) ==
    IF s = <<>> THEN <<>>
    ELSE InsertString(SortStrings(SubSeq(s, 1, Len(s) - 1)), s[Len(s)])

AllDigits(s) == s # <<>> /\ \A i \in 1..Len(s) : IsDigit(s[i])

NoSemver == [ok |-> FALSE, Major |-> 0, Minor |-> 0, Patch |-> 0, Pre |-> <<>>]

\* semver.NewVersion: an optional "v", one to three numbers, an optional
\* "-" and prerelease, an optional "+" and metadata (which is not part of
\* the version's order).
NewVersion(t) ==
    LET s     == TrimPrefix(t, <<"v">>)
        plus  == IndexByte(s, "+")
        body  == IF plus = 0 THEN s ELSE SubSeq(s, 1, plus - 1)
        meta  == IF plus = 0 THEN <<>> ELSE SubSeq(s, plus + 1, Len(s))
        dash  == IndexByte(body, "-")
        core  == IF dash = 0 THEN body ELSE SubSeq(body, 1, dash - 1)
        pre   == IF dash = 0 THEN <<>> ELSE SubSeq(body, dash + 1, Len(body))
        parts == Split(core, ".")
        num(i) == IF i <= Len(parts) THEN DigitsVal(parts[i]) ELSE 0
    IN  IF \/ Len(parts) > 3
           \/ \E i \in 1..Len(parts) : ~AllDigits(parts[i])
           \/ (plus # 0 /\ meta = <<>>)
           \/ (dash # 0 /\ pre = <<>>)
           \/ \E i \in 1..Len(pre) : pre[i] \in {".", "+"}
        THEN NoSemver
        ELSE [ok |-> TRUE, Major |-> num(1), Minor |-> num(2), Patch |-> num(3),
              Pre |-> pre]

\* Version.Compare: -1, 0 or 1; a version with a prerelease is below the
\* same numbers without one, two prereleases of letters compare as strings.
VersionCompare(a, b) ==
    IF a.Major # b.Major THEN (IF a.Major < b.Major THEN -1 ELSE 1)
    ELSE IF a.Minor # b.Minor THEN (IF a.Minor < b.Minor THEN -1 ELSE 1)
    ELSE IF a.Patch # b.Patch THEN (IF a.Patch < b.Patch THEN -1 ELSE 1)
    ELSE IF a.Pre = b.Pre THEN 0
    ELSE IF a.Pre = <<>> THEN 1
    ELSE IF b.Pre = <<>> THEN -1
    ELSE IF StringLess(a.Pre, b.Pre) THEN -1 ELSE 1

LessThan(a, b) == VersionCompare(a, b) < 0

VersionEqual(a, b) == VersionCompare(a, b) = 0

NoConstraint == [ok |-> FALSE, op |-> "", ver |-> NoSemver]

\* semver.NewConstraint on one comparison: "<" or ">=" and a version.
NewConstraint(c) ==
    LET op   == IF HasPrefix(c, <<">", "=">>) THEN ">="
                ELSE IF HasPrefix(c, <<"<">>) THEN "<" ELSE ""
        rest == IF op = ">=" THEN SubSeq(c, 3, Len(c))
                ELSE IF op = "<" THEN Tail(c) ELSE c
        v    == NewVersion(rest)
    IN  IF op = "" \/ ~v.ok THEN NoConstraint
        ELSE [ok |-> TRUE, op |-> op, ver |-> v]

\* Constraints.Check: a version with a prerelease satisfies only a
\* comparison that names a prerelease itself.
ConstraintCheck(c, v) ==
    /\ (v.Pre # <<>> => c.ver.Pre # <<>>)
    /\ IF c.op = "<" THEN LessThan(v, c.ver) ELSE ~LessThan(v, c.ver)

NoTag == <<>>

Picked(tag) == [ok |-> TRUE, tag |-> tag, err |-> "", matches |-> <<>>]

PickError(err, matches) == [ok |-> FALSE, tag |-> NoTag, err |-> err, matches |-> matches]

\* cand: a tag kept with its version.
Cand(tag, ver) == [tag |-> tag, ver |-> ver]

\* cands[len(cands)-1].ver after sort.Slice by LessThan, and the tags of
\* the candidates whose version equals it, in the order of the listing.
BestTags(cands) ==
    LET best == CHOOSE i \in 1..Len(cands) :
                    \A j \in 1..Len(cands) : ~LessThan(cands[i].ver, cands[j].ver)
        tied(c) == VersionEqual(c.ver, cands[best].ver)
        bestCands == SelectSeq(cands, tied)
    IN  [i \in 1..Len(bestCands) |-> bestCands[i].tag]

\* sort.Strings(bestTags) and bestTags[len(bestTags)-1].
GreatestTag(bestTags) == SortStrings(bestTags)[Len(bestTags)]

\* A mutant of PreferNoV: the greatest of the tied tags.
PreferGreatest(bestTags) == SortStrings(bestTags)[Len(bestTags)]

\* The tags of the best version: the only one, else the first in sorted
\* order without the prefix "v", else the first in sorted order.
PreferNoV(bestTags) ==
    LET sorted == SortStrings(bestTags)
    IN  IF Len(bestTags) = 1 THEN bestTags[1]
        ELSE IF \E i \in 1..Len(sorted) : ~HasPrefix(sorted[i], <<"v">>)
        THEN sorted[CHOOSE i \in 1..Len(sorted) :
                        /\ ~HasPrefix(sorted[i], <<"v">>)
                        /\ \A j \in 1..(i - 1) : HasPrefix(sorted[j], <<"v">>)]
        ELSE sorted[1]

pickSemverTag(tags, constraint, allowPrerelease) ==
    LET hasC  == TrimSpace(constraint) # <<>>
        c     == NewConstraint(constraint)
        keep(t) ==
            /\ NewVersion(t).ok
            /\ (allowPrerelease \/ NewVersion(t).Pre = <<>>)
            /\ (hasC => ConstraintCheck(c, NewVersion(t)))
        kept  == SelectSeq(tags, keep)
        cands == [i \in 1..Len(kept) |-> Cand(kept[i], NewVersion(kept[i]))]
    IN  IF hasC /\ ~c.ok THEN PickError("invalid constraint", <<>>)
        ELSE IF cands = <<>>
        THEN PickError(IF hasC THEN "no semver tags match constraint"
                       ELSE "no semver tags found", <<>>)
        ELSE Picked(PreferNoV(BestTags(cands)))

\* A regular expression of the tag filters: ^lit$ (exact), ^lit (a
\* prefix), ^lit(.*)$ (a prefix and one group), or a text that does not
\* compile.
Regexp(lit, exact, group, valid) ==
    [lit |-> lit, exact |-> exact, group |-> group, valid |-> valid]

NumSubexp(re) == IF re.group THEN 1 ELSE 0

MatchString(re, t) == IF re.exact THEN t = re.lit ELSE HasPrefix(t, re.lit)

\* FindStringSubmatch(t)[1] of a tag that matches.
Submatch(re, t) == SubSeq(t, Len(re.lit) + 1, Len(t))

\* candsTags: a new slice of the candidates' tags, in their order.
candsTags(cs) == [i \in 1..Len(cs) |-> cs[i].tag]

pickRegexTag(tags, re, allowPrerelease) ==
    LET useCaptureSemver == NumSubexp(re) >= 1
        ver(t) == NewVersion(Submatch(re, t))
        keep(t) ==
            /\ MatchString(re, t)
            /\ (useCaptureSemver =>
                    /\ ver(t).ok
                    /\ (allowPrerelease \/ ver(t).Pre = <<>>))
        kept  == SelectSeq(tags, keep)
        cands == [i \in 1..Len(kept) |->
                     Cand(kept[i], IF useCaptureSemver THEN ver(kept[i]) ELSE NoSemver)]
    IN  IF ~re.valid THEN PickError("invalid tagRegex", <<>>)
        ELSE IF cands = <<>> THEN PickError("no tags match tagRegex", <<>>)
        ELSE IF useCaptureSemver
        THEN Picked(GreatestTag(BestTags(cands)))
        ELSE Picked(candsTags(cands)[Len(cands)])

\* A mutant of pickLiteralTag: of several matching tags the first is taken.
pickLiteralTagFirst(tags, re) ==
    LET matches(t) == MatchString(re, t)
        found == SelectSeq(tags, matches)
    IN  IF ~re.valid THEN PickError("invalid tagRegex", <<>>)
        ELSE IF found = <<>> THEN PickError("no tags match tagRegex", <<>>)
        ELSE Picked(found[1])

pickLiteralTag(tags, re) ==
    LET matches(t) == MatchString(re, t)
        found == SelectSeq(tags, matches)
    IN  IF ~re.valid THEN PickError("invalid tagRegex", <<>>)
        ELSE IF found = <<>> THEN PickError("no tags match tagRegex", <<>>)
        ELSE IF Len(found) > 1
        THEN PickError("matched multiple tags", SortStrings(found))
        ELSE Picked(found[1])

-----------------------------------------------------------------------------
(* internal/yamlutil: the document (File.Value) and the comment sidecar    *)
(* (File.CM).  A node is a scalar with its decoded text, an ordered map    *)
(* (yaml.MapSlice: items of Key and Value) or a sequence ([]any: items     *)
(* whose Key is unused).  A comment of the sidecar is keyed by the path of *)
(* its node and is a head comment (the lines before the node) or a line    *)
(* comment (after the value, on its line).                                 *)

Scalar(text) == [kind |-> "scalar", text |-> text, items |-> <<>>]
MapNode(items) == [kind |-> "map", text |-> <<>>, items |-> items]
SeqNode(items) == [kind |-> "seq", text |-> <<>>, items |-> items]
Null == [kind |-> "null", text |-> <<>>, items |-> <<>>]
Item(key, value) == [Key |-> key, Value |-> value]

Root == <<"$">>
KeyPath(path, key) == path \o <<".">> \o key
IndexPath(path, i) == path \o <<"[">> \o Itoa(i) \o <<"]">>

Spaces(n) == [i \in 1..n |-> " "]

HasComment(cm, path, pos) == \E c \in cm : c.path = path /\ c.pos = pos

CommentText(cm, path, pos) ==
    (CHOOSE c \in cm : c.path = path /\ c.pos = pos).texts

\* The whole-line comment written before the node of path, if it has one.
HeadLines(cm, path, n) ==
    IF HasComment(cm, path, "head")
    THEN LET texts == CommentText(cm, path, "head")
         IN  [i \in 1..Len(texts) |-> Spaces(n) \o <<"#">> \o texts[i]]
    ELSE <<>>

\* The comment written after the value on the node's line, if it has one.
LineComment(cm, path) ==
    IF HasComment(cm, path, "line")
    THEN <<" ", "#">> \o CommentText(cm, path, "line")[1]
    ELSE <<>>

\* A string scalar as the encoder writes it in the given quoting style.
ValueText(st, text) ==
    IF st.quote = "double" THEN <<"\"">> \o text \o <<"\"">>
    ELSE IF st.quote = "single" THEN <<"'">> \o text \o <<"'">>
    ELSE text

IsCommentLine(line) ==
    LET t == TrimLeft(line) IN t # <<>> /\ Head(t) = "#"

FirstContent(ls) ==
    CHOOSE i \in 1..Len(ls) :
        /\ ~IsCommentLine(ls[i])
        /\ \A j \in 1..(i - 1) : IsCommentLine(ls[j])

\* The text of a node as block YAML in style st: st.seqIndent is the
\* indentation of a sequence under its key, st.item says whether the first
\* key of a map item follows the dash on its line ("inline") or starts the
\* next line ("bare"), st.quote is the quoting of the string scalars.
RECURSIVE LayoutNode(_, _, _, _, _)
RECURSIVE LayoutItems(_, _, _, _, _, _)

LayoutEntry(it, n, st, path, cm) ==
    LET p    == KeyPath(path, it.Key)
        open == <<Spaces(n) \o it.Key \o <<":">> \o LineComment(cm, p)>>
    IN  HeadLines(cm, p, n) \o
        ( CASE it.Value.kind = "scalar" ->
                   <<Spaces(n) \o it.Key \o <<":", " ">> \o ValueText(st, it.Value.text)
                       \o LineComment(cm, p)>>
            [] it.Value.kind = "map" ->
                   open \o LayoutNode(it.Value, n + 2, st, p, cm)
            [] it.Value.kind = "seq" ->
                   open \o LayoutNode(it.Value, n + st.seqIndent, st, p, cm)
            [] OTHER -> open )

LayoutElem(idx, v, n, st, path, cm) ==
    LET p    == IndexPath(path, idx)
        dash == Spaces(n) \o <<"-">>
    IN  CASE v.kind = "scalar" ->
                 HeadLines(cm, p, n) \o
                 <<dash \o <<" ">> \o ValueText(st, v.text) \o LineComment(cm, p)>>
          [] v.kind = "map" /\ st.item = "inline" ->
                 LET body == LayoutNode(v, n + 2, st, p, cm)
                     k    == FirstContent(body)
                 IN  [i \in 1..Len(body) |->
                         IF i = k
                         THEN dash \o <<" ">> \o SubSeq(body[i], n + 3, Len(body[i]))
                         ELSE body[i]]
          [] v.kind \in {"map", "seq"} ->
                 HeadLines(cm, p, n) \o <<dash>> \o LayoutNode(v, n + 2, st, p, cm)
          [] OTHER -> HeadLines(cm, p, n) \o <<dash>>

LayoutItems(items, i, n, st, path, cm) ==
    IF i > Len(items) THEN <<>>
    ELSE LayoutEntry(items[i], n, st, path, cm)
             \o LayoutItems(items, i + 1, n, st, path, cm)

RECURSIVE LayoutElems(_, _, _, _, _, _)
LayoutElems(items, i, n, st, path, cm) ==
    IF i > Len(items) THEN <<>>
    ELSE LayoutElem(i - 1, items[i].Value, n, st, path, cm)
             \o LayoutElems(items, i + 1, n, st, path, cm)

LayoutNode(node, n, st, path, cm) ==
    CASE node.kind = "map" -> LayoutItems(node.items, 1, n, st, path, cm)
      [] node.kind = "seq" -> LayoutElems(node.items, 1, n, st, path, cm)
      [] OTHER -> <<>>

-----------------------------------------------------------------------------
(* ParseBytes: yaml.UnmarshalWithOptions(b, &v, CommentToMap(cm),          *)
(* UseOrderedMap()) on the block subset: nested maps, block sequences,     *)
(* plain and quoted string scalars, whole-line and trailing comments.      *)
(* A line is cut into units (a dash, a key with its value, a bare scalar), *)
(* each with its column; the units nest by their columns.                  *)

Indent(line) == Len(line) - Len(TrimLeft(line))

\* Index of the "#" that starts a trailing comment, 0 when there is none.
CommentStart(line) ==
    IF \E i \in 2..Len(line) : line[i] = "#" /\ line[i - 1] = " "
    THEN CHOOSE i \in 2..Len(line) :
             /\ line[i] = "#" /\ line[i - 1] = " "
             /\ \A j \in 2..(i - 1) : ~(line[j] = "#" /\ line[j - 1] = " ")
    ELSE 0

Unquote(val) ==
    IF Len(val) >= 2 /\ Head(val) \in {"\"", "'"} /\ val[Len(val)] = Head(val)
    THEN SubSeq(val, 2, Len(val) - 1)
    ELSE val

Unit(u, indent, key, val, ln) ==
    [u |-> u, indent |-> indent, key |-> key, val |-> val, ln |-> ln,
     head |-> <<>>, cmt |-> <<>>]

\* The units of "key: value", "key:" or a bare scalar that starts at column n.
EntryUnits(t, n, ln) ==
    LET c == IndexByte(t, ":")
    IN  IF c = 0
        THEN <<Unit("scalar", n, <<>>, t, ln)>>
        ELSE <<Unit("key", n, TrimSpace(SubSeq(t, 1, c - 1)),
                    TrimSpace(SubSeq(t, c + 1, Len(t))), ln)>>

ContentUnits(line, ln) ==
    LET cs   == CommentStart(line)
        body == IF cs = 0 THEN TrimRight(line) ELSE TrimRight(SubSeq(line, 1, cs - 1))
        n    == Indent(body)
        t    == TrimLeft(body)
        cmt  == IF cs = 0 THEN <<>> ELSE <<SubSeq(line, cs + 1, Len(line))>>
        us   == IF Head(t) = "-"
                THEN LET rest == TrimSpace(Tail(t))
                     IN  <<Unit("dash", n, <<>>, <<>>, ln)>> \o
                         (IF rest = <<>> THEN <<>> ELSE EntryUnits(rest, n + 2, ln))
                ELSE EntryUnits(t, n, ln)
    IN  [i \in 1..Len(us) |-> IF i = Len(us) THEN [us[i] EXCEPT !.cmt = cmt] ELSE us[i]]

\* The units of the text; the comment lines before a content line become
\* the head comment of that line's last unit, blank lines are dropped.
RECURSIVE UnitsFrom(_, _, _)
UnitsFrom(ls, i, heads) ==
    IF i > Len(ls) THEN <<>>
    ELSE IF TrimSpace(ls[i]) = <<>> THEN UnitsFrom(ls, i + 1, heads)
    ELSE IF IsCommentLine(ls[i])
    THEN UnitsFrom(ls, i + 1, Append(heads, Tail(TrimLeft(ls[i]))))
    ELSE LET us == ContentUnits(ls[i], i)
         IN  [k \in 1..Len(us) |->
                 IF k = Len(us) THEN [us[k] EXCEPT !.head = heads] ELSE us[k]]
             \o UnitsFrom(ls, i + 1, <<>>)

UnitComments(e, p) ==
    (IF e.head = <<>> THEN {} ELSE {[path |-> p, pos |-> "head", texts |-> e.head]})
    \cup (IF e.cmt = <<>> THEN {} ELSE {[path |-> p, pos |-> "line", texts |-> e.cmt]})

Parsed(node, next, cm, pos) ==
    [node |-> node, next |-> next, cm |-> cm, pos |-> pos]

RECURSIVE ParseVal(_, _, _)
RECURSIVE ParseMap(_, _, _, _, _, _, _)
RECURSIVE ParseSeq(_, _, _, _, _, _, _)

\* The entries of the map whose keys stand at column n, from unit i on.
ParseMap(U, i, n, path, items, cm, pos) ==
    IF i > Len(U) \/ U[i].u # "key" \/ U[i].indent # n
    THEN Parsed(MapNode(items), i, cm, pos)
    ELSE LET e   == U[i]
             p   == KeyPath(path, e.key)
             own == UnitComments(e, p)
         IN  IF e.val # <<>>
             THEN ParseMap(U, i + 1, n, path,
                      Append(items, Item(e.key, Scalar(Unquote(e.val)))),
                      cm \cup own, pos \cup {[ln |-> e.ln, path |-> p]})
             ELSE IF /\ i + 1 <= Len(U)
                     /\ \/ U[i + 1].indent > n
                        \/ U[i + 1].u = "dash" /\ U[i + 1].indent = n
             THEN LET r == ParseVal(U, i + 1, p)
                  IN  ParseMap(U, r.next, n, path, Append(items, Item(e.key, r.node)),
                               cm \cup own \cup r.cm, pos \cup r.pos)
             ELSE ParseMap(U, i + 1, n, path, Append(items, Item(e.key, Null)),
                           cm \cup own, pos)

\* The items of the sequence whose dashes stand at column n, from unit i on.
ParseSeq(U, i, n, path, items, cm, pos) ==
    IF i > Len(U) \/ U[i].u # "dash" \/ U[i].indent # n
    THEN Parsed(SeqNode(items), i, cm, pos)
    ELSE LET e   == U[i]
             p   == IndexPath(path, Len(items))
             own == UnitComments(e, p)
         IN  IF i + 1 <= Len(U) /\ U[i + 1].indent > n
             THEN LET r == ParseVal(U, i + 1, p)
                  IN  ParseSeq(U, r.next, n, path, Append(items, Item(<<>>, r.node)),
                               cm \cup own \cup r.cm, pos \cup r.pos)
             ELSE ParseSeq(U, i + 1, n, path, Append(items, Item(<<>>, Null)),
                           cm \cup own, pos)

ParseVal(U, i, path) ==
    LET e == U[i]
    IN  CASE e.u = "key"  -> ParseMap(U, i, e.indent, path, <<>>, {}, {})
          [] e.u = "dash" -> ParseSeq(U, i, e.indent, path, <<>>, {}, {})
          [] OTHER -> Parsed(Scalar(Unquote(e.val)), i + 1, UnitComments(e, path),
                             {[ln |-> e.ln, path |-> path]})

\* File{Value, CM} of the text.
ParseBytes(b) ==
    LET U == UnitsFrom(b, 1, <<>>)
        r == IF U = <<>> THEN Parsed(Null, 1, {}, {}) ELSE ParseVal(U, 1, Root)
    IN  [Value |-> r.node, CM |-> r.cm]

\* The position of the scalar each line of the text writes: the line
\* number with the path of the node in the decoded value.
LinePaths(b) ==
    LET U == UnitsFrom(b, 1, <<>>)
    IN  IF U = <<>> THEN {} ELSE ParseVal(U, 1, Root).pos

\* The encoder's style (yaml.MarshalWithOptions with its defaults): a
\* sequence is not indented under its key, the first key of a map item
\* follows the dash, a string that needs no quotes is written plain.
EncoderStyle == [seqIndent |-> 0, item |-> "inline", quote |-> "plain"]

Render(f) == LayoutNode(f.Value, 0, EncoderStyle, Root, f.CM)

-----------------------------------------------------------------------------
(* internal/yamlutil: the path resolver.  GetString reads through the      *)
(* library's path (yaml.PathString and Path.Filter), SetString writes      *)
(* through parseSimpleYAMLPath and setAtPath.                              *)

KeyStepOf(k) == [kind |-> "key", key |-> k, index |-> 0]
IndexStepOf(n) == [kind |-> "index", key |-> <<>>, index |-> n]

PathError == [err |-> TRUE, steps |-> <<>>]
PathSteps(steps) == [err |-> FALSE, steps |-> steps]

\* The inner loop of parseSimpleYAMLPath on one segment: "foo", "foo[3]".
RECURSIVE SegmentSteps(_, _)
SegmentSteps(part, steps) ==
    LET br == IndexByte(part, "[")
    IN  IF br = 0 THEN PathSteps(Append(steps, KeyStepOf(part)))
        ELSE LET withKey == IF br > 1
                            THEN Append(steps, KeyStepOf(SubSeq(part, 1, br - 1)))
                            ELSE steps
                 end     == IndexByte(SubSeq(part, br, Len(part)), "]")
                 endAt   == end + br - 1
                 idx     == Atoi(SubSeq(part, br + 1, endAt - 1))
             IN  IF end = 0 THEN PathError
                 ELSE IF ~idx.ok THEN PathError
                 ELSE IF endAt >= Len(part)
                 THEN PathSteps(Append(withKey, IndexStepOf(idx.n)))
                 ELSE SegmentSteps(SubSeq(part, endAt + 1, Len(part)),
                                   Append(withKey, IndexStepOf(idx.n)))

RECURSIVE SegmentsSteps(_, _, _)
SegmentsSteps(parts, i, steps) ==
    IF i > Len(parts) THEN PathSteps(steps)
    ELSE IF parts[i] = <<>> THEN PathError
    ELSE LET r == SegmentSteps(parts[i], steps)
         IN  IF r.err THEN PathError ELSE SegmentsSteps(parts, i + 1, r.steps)

parseSimpleYAMLPath(p) ==
    IF p = <<"$">> THEN PathError
    ELSE IF ~HasPrefix(p, <<"$", ".">>) THEN PathError
    ELSE SegmentsSteps(Split(TrimPrefix(p, <<"$", ".">>), "."), 1, <<>>)

mapSliceHas(ms, key) == \E i \in 1..Len(ms) : ms[i].Key = key

mapSliceGet(ms, key) ==
    ms[CHOOSE i \in 1..Len(ms) :
           ms[i].Key = key /\ \A j \in 1..(i - 1) : ms[j].Key # key].Value

mapSliceSet(ms, key, value) ==
    IF mapSliceHas(ms, key)
    THEN LET i == CHOOSE k \in 1..Len(ms) :
                      ms[k].Key = key /\ \A j \in 1..(k - 1) : ms[j].Key # key
         IN  [ms EXCEPT ![i].Value = value]
    ELSE Append(ms, Item(key, value))

\* The walk of setAtPath to the parent of the leaf, with its checks.
RECURSIVE WalkTo(_, _, _)
WalkTo(cur, steps, i) ==
    IF i > Len(steps) THEN [err |-> FALSE, node |-> cur]
    ELSE LET st == steps[i]
         IN  IF st.kind = "key"
             THEN IF cur.kind # "map" THEN [err |-> TRUE, node |-> cur]
                  ELSE IF ~mapSliceHas(cur.items, st.key) THEN [err |-> TRUE, node |-> cur]
                  ELSE WalkTo(mapSliceGet(cur.items, st.key), steps, i + 1)
             ELSE IF cur.kind # "seq" THEN [err |-> TRUE, node |-> cur]
                  ELSE IF st.index < 0 \/ st.index >= Len(cur.items)
                  THEN [err |-> TRUE, node |-> cur]
                  ELSE WalkTo(cur.items[st.index + 1].Value, steps, i + 1)

\* setAtPathAssign: the value written back at the path, parent by parent.
RECURSIVE setAtPathAssign(_, _, _)
setAtPathAssign(root, steps, value) ==
    IF steps = <<>> THEN value
    ELSE LET init == SubSeq(steps, 1, Len(steps) - 1)
             leaf == steps[Len(steps)]
             cur  == WalkTo(root, init, 1).node
         IN  setAtPathAssign(root, init,
                 IF leaf.kind = "key"
                 THEN MapNode(mapSliceSet(cur.items, leaf.key, value))
                 ELSE SeqNode([cur.items EXCEPT ![leaf.index + 1].Value = value]))

\* A mutant of setAtPath: an index one past the end appends the value.
setAtPathGrows(root, steps, newValue) ==
    LET init == SubSeq(steps, 1, Len(steps) - 1)
        leaf == steps[Len(steps)]
        w    == WalkTo(root, init, 1)
        fail == [err |-> TRUE, root |-> root]
    IN  IF w.err THEN fail
        ELSE IF leaf.kind = "key"
        THEN IF w.node.kind # "map" THEN fail
             ELSE [err |-> FALSE,
                   root |-> setAtPathAssign(root, init,
                                MapNode(mapSliceSet(w.node.items, leaf.key,
                                                    Scalar(newValue))))]
        ELSE IF w.node.kind # "seq" THEN fail
             ELSE IF leaf.index < 0 \/ leaf.index > Len(w.node.items) THEN fail
             ELSE [err |-> FALSE,
                   root |-> setAtPathAssign(root, init,
                                SeqNode([k \in 1..(IF leaf.index = Len(w.node.items)
                                                   THEN leaf.index + 1
                                                   ELSE Len(w.node.items)) |->
                                            IF k = leaf.index + 1
                                            THEN Item(<<>>, Scalar(newValue))
                                            ELSE w.node.items[k]]))]

setAtPath(root, steps, newValue) ==
    LET init == SubSeq(steps, 1, Len(steps) - 1)
        leaf == steps[Len(steps)]
        w    == WalkTo(root, init, 1)
        fail == [err |-> TRUE, root |-> root]
    IN  IF w.err THEN fail
        ELSE IF leaf.kind = "key"
        THEN IF w.node.kind # "map" THEN fail
             ELSE [err |-> FALSE,
                   root |-> setAtPathAssign(root, init,
                                MapNode(mapSliceSet(w.node.items, leaf.key,
                                                    Scalar(newValue))))]
        ELSE IF w.node.kind # "seq" THEN fail
             ELSE IF leaf.index < 0 \/ leaf.index >= Len(w.node.items) THEN fail
             ELSE [err |-> FALSE,
                   root |-> setAtPathAssign(root, init,
                                SeqNode([w.node.items EXCEPT
                                             ![leaf.index + 1].Value = Scalar(newValue)]))]

\* yaml.PathString: "$", then ".name" and "[digits]" steps.
IsNameToken(c) == c \notin {"$", ".", "[", "]", " ", "\t"}

RECURSIVE NameEnd(_, _)
NameEnd(p, i) == IF i <= Len(p) /\ IsNameToken(p[i]) THEN NameEnd(p, i + 1) ELSE i

RECURSIVE PathStringFrom(_, _, _)
PathStringFrom(p, i, steps) ==
    IF i > Len(p) THEN PathSteps(steps)
    ELSE IF p[i] = "."
    THEN LET e == NameEnd(p, i + 1)
         IN  IF e = i + 1 THEN PathError
             ELSE PathStringFrom(p, e, Append(steps, KeyStepOf(SubSeq(p, i + 1, e - 1))))
    ELSE IF p[i] = "["
    THEN LET close == IndexByte(SubSeq(p, i, Len(p)), "]")
             digits == SubSeq(p, i + 1, i + close - 2)
         IN  IF close = 0 \/ digits = <<>> \/ \E k \in 1..Len(digits) : ~IsDigit(digits[k])
             THEN PathError
             ELSE PathStringFrom(p, i + close, Append(steps, IndexStepOf(DigitsVal(digits))))
    ELSE PathError

PathString(p) ==
    IF p = <<>> \/ Head(p) # "$" THEN PathError ELSE PathStringFrom(p, 2, <<>>)

\* fmt.Sprint of a decoded value that is not a string: map[k:v k:v], [v v].
\* (Go prints the keys of a map sorted; the maps below the root of the
\* model's documents have their keys in that order.)
RECURSIVE Sprint(_)
RECURSIVE SprintItems(_, _, _)
Sprint(node) ==
    CASE node.kind = "scalar" -> node.text
      [] node.kind = "map" -> <<"map[">> \o SprintItems(node.items, 1, TRUE) \o <<"]">>
      [] node.kind = "seq" -> <<"[">> \o SprintItems(node.items, 1, FALSE) \o <<"]">>
      [] OTHER -> <<"<nil>">>
SprintItems(items, i, keyed) ==
    IF i > Len(items) THEN <<>>
    ELSE (IF i > 1 THEN <<" ">> ELSE <<>>)
         \o (IF keyed THEN items[i].Key \o <<":">> ELSE <<>>)
         \o Sprint(items[i].Value)
         \o SprintItems(items, i + 1, keyed)

GetString(f, yamlPath) ==
    LET p == PathString(yamlPath)
        w == WalkTo(f.Value, p.steps, 1)
    IN  IF p.err THEN [text |-> <<>>, found |-> FALSE, err |-> TRUE]
        ELSE IF w.err \/ w.node.kind = "null"
        THEN [text |-> <<>>, found |-> FALSE, err |-> FALSE]
        ELSE [text |-> Sprint(w.node), found |-> TRUE, err |-> FALSE]

\* A mutant of SetString: the current value is not read first.
SetStringAlways(f, yamlPath, newValue) ==
    LET steps == parseSimpleYAMLPath(yamlPath)
        r     == setAtPath(f.Value, steps.steps, newValue)
    IN  IF steps.err THEN [changed |-> FALSE, err |-> TRUE, f |-> f]
        ELSE IF r.err THEN [changed |-> FALSE, err |-> TRUE, f |-> f]
        ELSE [changed |-> TRUE, err |-> FALSE, f |-> [f EXCEPT !.Value = r.root]]

\* A mutant of SetString: the comments of the leaf go with the old value.
SetStringDropsComments(f, yamlPath, newValue) ==
    LET g     == GetString(f, yamlPath)
        steps == parseSimpleYAMLPath(yamlPath)
        r     == setAtPath(f.Value, steps.steps, newValue)
    IN  IF g.found /\ g.text = newValue THEN [changed |-> FALSE, err |-> FALSE, f |-> f]
        ELSE IF steps.err THEN [changed |-> FALSE, err |-> TRUE, f |-> f]
        ELSE IF r.err THEN [changed |-> FALSE, err |-> TRUE, f |-> f]
        ELSE [changed |-> TRUE, err |-> FALSE,
              f |-> [Value |-> r.root, CM |-> {c \in f.CM : c.path # yamlPath}]]

\* A mutant of SetString: a failed setAtPath is reported as no change.
SetStringSwallowsErrors(f, yamlPath, newValue) ==
    LET g     == GetString(f, yamlPath)
        steps == parseSimpleYAMLPath(yamlPath)
        r     == setAtPath(f.Value, steps.steps, newValue)
    IN  IF g.found /\ g.text = newValue THEN [changed |-> FALSE, err |-> FALSE, f |-> f]
        ELSE IF steps.err THEN [changed |-> FALSE, err |-> TRUE, f |-> f]
        ELSE IF r.err THEN [changed |-> FALSE, err |-> FALSE, f |-> f]
        ELSE [changed |-> TRUE, err |-> FALSE, f |-> [f EXCEPT !.Value = r.root]]

SetString(f, yamlPath, newValue) ==
    LET g     == GetString(f, yamlPath)
        steps == parseSimpleYAMLPath(yamlPath)
        r     == setAtPath(f.Value, steps.steps, newValue)
    IN  IF g.found /\ g.text = newValue THEN [changed |-> FALSE, err |-> FALSE, f |-> f]
        ELSE IF steps.err THEN [changed |-> FALSE, err |-> TRUE, f |-> f]
        ELSE IF r.err THEN [changed |-> FALSE, err |-> TRUE, f |-> f]
        ELSE [changed |-> TRUE, err |-> FALSE, f |-> [f EXCEPT !.Value = r.root]]

\* chart.ApplyChartVersionBump: sets $.version to the bumped version.
VersionPath == <<"$", ".", "version">>

ApplyChartVersionBump(ast, lvl) ==
    LET cur    == GetString(ast, VersionPath)
        newVer == BumpChartVersion(cur.text, lvl)
        fail   == [changed |-> FALSE, err |-> TRUE, f |-> ast]
    IN  IF cur.err THEN fail
        ELSE IF ~cur.found THEN fail
        ELSE IF ~newVer.ok THEN fail
        ELSE IF newVer.text = cur.text THEN [changed |-> FALSE, err |-> FALSE, f |-> ast]
        ELSE SetString(ast, VersionPath, newVer.text)

-----------------------------------------------------------------------------
(* internal/directives: the line scanner.                                  *)

\* strings.Cut(s, sep) for a one-token separator.
Cut(s, sep) ==
    LET i == IndexByte(s, sep)
    IN  IF i = 0
        THEN [before |-> s, after |-> <<>>, found |-> FALSE]
        ELSE [before |-> SubSeq(s, 1, i - 1), after |-> SubSeq(s, i + 1, Len(s)),
              found |-> TRUE]

Contains(s, c) == IndexByte(s, c) # 0

\* strings.TrimLeft(line, " "): spaces only.
RECURSIVE TrimLeftSpaces(_)
TrimLeftSpaces(s) ==
    IF s # <<>> /\ Head(s) = " " THEN TrimLeftSpaces(Tail(s)) ELSE s

LineInfo(indent, isListItem, key, valueText, isScalarKV, isMapStart) ==
    [indent |-> indent, isListItem |-> isListItem, key |-> key,
     valueText |-> valueText, isScalarKV |-> isScalarKV, isMapStart |-> isMapStart,
     err |-> FALSE]

LineError == [LineInfo(0, FALSE, <<>>, <<>>, FALSE, FALSE) EXCEPT !.err = TRUE]

parseYAMLContentLine(line) ==
    LET indent == Len(line) - Len(TrimLeftSpaces(line))
        left   == TrimLeftSpaces(line)
    IN  IF TrimSpace(line) = <<>>
        THEN LineInfo(0, FALSE, <<>>, <<>>, FALSE, FALSE)
        ELSE IF HasPrefix(left, <<"-">>)
        THEN LET rest == TrimSpace(SubSeq(line, indent + 2, Len(line)))
                 c    == Cut(rest, ":")
                 key  == TrimSpace(c.before)
                 val  == TrimSpace(c.after)
             IN  IF rest = <<>> THEN LineInfo(indent, TRUE, <<>>, <<>>, FALSE, FALSE)
                 ELSE IF c.found
                 THEN IF key = <<>> THEN LineError
                      ELSE IF val = <<>>
                      THEN LineInfo(indent, TRUE, key, <<>>, FALSE, TRUE)
                      ELSE LineInfo(indent, TRUE, key, val, TRUE, FALSE)
                 ELSE LineInfo(indent, TRUE, <<>>, <<>>, FALSE, FALSE)
        ELSE LET c   == Cut(left, ":")
                 key == TrimSpace(c.before)
                 val == TrimSpace(c.after)
             IN  IF ~c.found THEN LineError
                 ELSE IF key = <<>> THEN LineError
                 ELSE IF val = <<>>
                 THEN LineInfo(indent, FALSE, key, <<>>, FALSE, TRUE)
                 ELSE LineInfo(indent, FALSE, key, val, TRUE, FALSE)

\* pathStack: steps is the stack of stackStep, listIndexByIndent a map.
KeyStep(indent, key) == [indent |-> indent, kind |-> "key", key |-> key, index |-> 0]
IndexStep(indent, index) == [indent |-> indent, kind |-> "index", key |-> <<>>, index |-> index]

PathStack(steps, listIndexByIndent) ==
    [steps |-> steps, listIndexByIndent |-> listIndexByIndent]

newPathStack == PathStack(<<>>, <<>>)

\* A mutant of PopSteps: only the steps of a deeper indent are popped.
RECURSIVE PopStepsDeeper(_, _)
PopStepsDeeper(steps, indent) ==
    IF steps # <<>> /\ ~(indent >= steps[Len(steps)].indent)
    THEN PopStepsDeeper(SubSeq(steps, 1, Len(steps) - 1), indent)
    ELSE steps

RECURSIVE PopSteps(_, _)
PopSteps(steps, indent) ==
    IF steps # <<>> /\ ~(indent > steps[Len(steps)].indent)
    THEN PopSteps(SubSeq(steps, 1, Len(steps) - 1), indent)
    ELSE steps

\* listIndexByIndent is a function from the indents it has an entry for.
MapDelete(m, drop) == [k \in {x \in DOMAIN m : x \notin drop} |-> m[k]]
MapPut(m, key, v) == [k \in DOMAIN m \cup {key} |-> IF k = key THEN v ELSE m[k]]

popToIndent(ps, indent) ==
    PathStack(PopSteps(ps.steps, indent),
              MapDelete(ps.listIndexByIndent,
                        {k \in DOMAIN ps.listIndexByIndent : k >= indent}))

applyLine(ps0, li) ==
    LET ps == popToIndent(ps0, li.indent)
    IN  IF li.isListItem
        THEN LET idx   == IF li.indent \in DOMAIN ps.listIndexByIndent
                          THEN ps.listIndexByIndent[li.indent] + 1 ELSE 0
                 byInd == MapPut(ps.listIndexByIndent, li.indent, idx)
                 n     == Len(ps.steps)
                 steps == IF n = 0 \/ ~(ps.steps[n].kind = "index" /\ ps.steps[n].indent = li.indent)
                          THEN Append(ps.steps, IndexStep(li.indent, idx))
                          ELSE [ps.steps EXCEPT ![n].index = idx]
                 ps1   == PathStack(steps, byInd)
             IN  IF li.key # <<>>
                 THEN LET ps2 == popToIndent(ps1, li.indent + 1)
                      IN  PathStack(Append(ps2.steps, KeyStep(li.indent + 2, li.key)),
                                    ps2.listIndexByIndent)
                 ELSE ps1
        ELSE IF li.key # <<>> /\ li.isMapStart
        THEN PathStack(Append(ps.steps, KeyStep(li.indent, li.key)), ps.listIndexByIndent)
        ELSE ps

RECURSIVE StepsText(_)
StepsText(steps) ==
    IF steps = <<>> THEN <<>>
    ELSE (IF Head(steps).kind = "key"
          THEN <<".">> \o Head(steps).key
          ELSE <<"[">> \o Itoa(Head(steps).index) \o <<"]">>)
         \o StepsText(Tail(steps))

currentPathWithLeaf(ps, li) ==
    <<"$">> \o StepsText(ps.steps)
        \o (IF li.key # <<>> THEN <<".">> \o li.key ELSE <<>>)

\* strings.Trim(s, c) for a one-token cutset.
RECURSIVE TrimChar(_, _)
TrimChar(s, c) ==
    IF s # <<>> /\ Head(s) = c THEN TrimChar(Tail(s), c)
    ELSE IF s # <<>> /\ s[Len(s)] = c THEN TrimChar(SubSeq(s, 1, Len(s) - 1), c)
    ELSE s

\* reDirective: the argument text of a "# bump:" line (m[1]).
IsDirectiveLine(line) ==
    LET t == TrimLeft(line)
    IN  /\ t # <<>> /\ Head(t) = "#"
        /\ LET u == TrimLeft(Tail(t)) IN u # <<>> /\ Head(u) = "bump:"

DirectiveArgs(line) == TrimLeft(Tail(TrimLeft(Tail(TrimLeft(line)))))

\* splitArgs: split on the spaces that are not in quotes, drop the quotes.
RECURSIVE SplitLoop(_, _, _, _, _, _)
SplitLoop(s, i, cur, parts, inSingle, inDouble) ==
    LET flush == IF cur # <<>> THEN Append(parts, cur) ELSE parts
    IN  IF i > Len(s)
        THEN [err |-> inSingle \/ inDouble, parts |-> flush]
        ELSE LET c == s[i]
             IN  CASE c \in {" ", "\t"} ->
                        IF inSingle \/ inDouble
                        THEN SplitLoop(s, i + 1, Append(cur, c), parts, inSingle, inDouble)
                        ELSE SplitLoop(s, i + 1, <<>>, flush, inSingle, inDouble)
                   [] c = "'" ->
                        IF ~inDouble
                        THEN SplitLoop(s, i + 1, cur, parts, ~inSingle, inDouble)
                        ELSE SplitLoop(s, i + 1, Append(cur, c), parts, inSingle, inDouble)
                   [] c = "\"" ->
                        IF ~inSingle
                        THEN SplitLoop(s, i + 1, cur, parts, inSingle, ~inDouble)
                        ELSE SplitLoop(s, i + 1, Append(cur, c), parts, inSingle, inDouble)
                   [] OTHER ->
                        SplitLoop(s, i + 1, Append(cur, c), parts, inSingle, inDouble)

splitArgs(s) ==
    LET r == SplitLoop(s, 1, <<>>, <<>>, FALSE, FALSE)
    IN  [err |-> r.err,
         args |-> [i \in 1..Len(r.parts) |->
                     LET c == Cut(r.parts[i], "=")
                     IN  IF ~c.found THEN r.parts[i]
                         ELSE c.before \o <<"=">>
                                \o TrimChar(TrimChar(TrimSpace(c.after), "\""), "'")]]

\* strconv.ParseBool.
BoolTrue == {"1", "t", "T", "TRUE", "true", "True"}
BoolFalse == {"0", "f", "F", "FALSE", "false", "False"}

ParseBool(s) ==
    IF Len(s) = 1 /\ s[1] \in BoolTrue THEN [ok |-> TRUE, b |-> TRUE]
    ELSE IF Len(s) = 1 /\ s[1] \in BoolFalse THEN [ok |-> TRUE, b |-> FALSE]
    ELSE [ok |-> FALSE, b |-> FALSE]

\* kv[name] of parseDirectiveArgs: the value of the last token of that key.
KvHas(args, name) ==
    \E i \in 1..Len(args) : TrimSpace(Cut(args[i], "=").before) = <<name>>

KvGet(args, name) ==
    IF KvHas(args, name)
    THEN LET i == CHOOSE k \in 1..Len(args) :
                      /\ TrimSpace(Cut(args[k], "=").before) = <<name>>
                      /\ \A j \in (k + 1)..Len(args) :
                             TrimSpace(Cut(args[j], "=").before) # <<name>>
         IN  TrimSpace(Cut(args[i], "=").after)
    ELSE <<>>

ImageDirective(image, strategy, constraint, tagRegex, allowPrerelease, platform) ==
    [FilePath |-> "", Line |-> 0, Key |-> <<>>, YAMLPath |-> <<>>, CurrentText |-> <<>>,
     Image |-> image, Strategy |-> strategy, Constraint |-> constraint,
     TagRegex |-> tagRegex, AllowPrerelease |-> allowPrerelease, Platform |-> platform]

NoDirective == ImageDirective(<<>>, <<>>, <<>>, <<>>, FALSE, <<>>)

parseDirectiveArgs(argStr) ==
    LET sp   == splitArgs(argStr)
        args == sp.args
        img  == KvGet(args, "image")
        bad  == \E i \in 1..Len(args) :
                    LET c == Cut(args[i], "=")
                    IN  \/ ~c.found
                        \/ TrimSpace(c.before) = <<>>
                        \/ TrimSpace(c.after) = <<>>
        pb   == ParseBool(KvGet(args, "allowPrerelease"))
        fail == [err |-> TRUE, d |-> NoDirective]
    IN  IF sp.err \/ bad THEN fail
        ELSE IF img = <<>> THEN fail
        ELSE IF ~Contains(img, "/") \/ ~Contains(img, ".") THEN fail
        ELSE IF KvHas(args, "allowPrerelease") /\ ~pb.ok THEN fail
        ELSE [err |-> FALSE,
              d |-> ImageDirective(img,
                        IF KvGet(args, "strategy") = <<>> THEN <<"semver">>
                        ELSE KvGet(args, "strategy"),
                        KvGet(args, "constraint"), KvGet(args, "tagRegex"),
                        KvHas(args, "allowPrerelease") /\ pb.b,
                        KvGet(args, "platform"))]

-----------------------------------------------------------------------------
(* The YAML texts the scanner and the document operations are run on:      *)
(* block documents of nested maps and sequences, written in the styles a   *)
(* values file is found in, with comments and annotations added.           *)

MaxLeaves == 3

KeyNames == <<"image", "tag">>
ValueNames == <<"v1", "v2", "v3", "v4", "v5">>

RECURSIVE Leaves(_)
RECURSIVE LeavesOf(_, _)
Leaves(t) == IF t.kind \in {"map", "seq"} THEN LeavesOf(t.items, 1) ELSE 1
LeavesOf(items, i) ==
    IF i > Len(items) THEN 0 ELSE Leaves(items[i].Value) + LeavesOf(items, i + 1)

\* The trees of at most d levels of containers and at most l scalars; a
\* sequence holds scalars and maps, a container one or two children.
RECURSIVE TreesOf(_, _, _)
RECURSIVE ChildLists(_, _, _, _)
ChildLists(d, l, w, inSeq) ==
    IF w = 0 THEN {<<>>}
    ELSE UNION {{<<t>> \o rest : rest \in ChildLists(d, l - Leaves(t), w - 1, inSeq)} :
                t \in TreesOf(d, l - (w - 1), inSeq)}

TreesOf(d, l, inSeq) ==
    IF l < 1 THEN {}
    ELSE {Scalar(<<"v">>)} \cup
         (IF d = 0 THEN {}
          ELSE UNION {
                 {MapNode([i \in 1..w |-> Item(<<KeyNames[i]>>, cs[i])]) :
                      cs \in ChildLists(d - 1, l, w, FALSE)}
                 \cup (IF inSeq THEN {}
                       ELSE {SeqNode([i \in 1..w |-> Item(<<>>, cs[i])]) :
                                 cs \in ChildLists(d - 1, l, w, TRUE)})
                 : w \in 1..2})

\* The scalars of the tree numbered in document order, so that every
\* scalar has a text of its own.
RECURSIVE Relabel(_, _)
RECURSIVE RelabelItems(_, _, _)
Relabel(t, k) ==
    IF t.kind \in {"map", "seq"}
    THEN LET r == RelabelItems(t.items, 1, k)
         IN  [node |-> [t EXCEPT !.items = r.items], next |-> r.next]
    ELSE [node |-> Scalar(<<ValueNames[k]>>), next |-> k + 1]
RelabelItems(items, i, k) ==
    IF i > Len(items) THEN [items |-> items, next |-> k]
    ELSE LET r == Relabel(items[i].Value, k)
         IN  RelabelItems([items EXCEPT ![i].Value = r.node], i + 1, r.next)

Documents(l) ==
    {Relabel(t, 1).node : t \in {x \in TreesOf(3, l, FALSE) : x.kind # "scalar"}}

\* The ways the text of a document is written.
BlockStyle == [seqIndent |-> 2, item |-> "inline", quote |-> "plain"]
QuotedStyle == [seqIndent |-> 2, item |-> "bare", quote |-> "double"]
Styles == {BlockStyle, EncoderStyle, QuotedStyle}

PlainTexts == {LayoutNode(t, 0, st, Root, {}) : t \in Documents(MaxLeaves), st \in Styles}

\* An annotation, a comment line, a blank line, a trailing comment.
GoodArgs == <<"image", "=", "ghcr", ".", "io", "/", "e", "/", "app">>
ShortArgs == <<"image", "=", "app">>

AnnotationLine(n, args) == Spaces(n) \o <<"#", " ", "bump:", " ">> \o args
NoteLine(n) == Spaces(n) \o <<"#", " ", "note">>
TrailingNote == <<" ", "#", " ", "note">>

Fillers(n) == {<<>>, <<<<>>>>, <<NoteLine(n)>>}

\* The text with an annotation of the given arguments before line p (after
\* the last line when p is past it), fill between the annotation and line
\* p, and a trailing comment on line q (none when q = 0).
Decorate(text, p, fill, q, args) ==
    LET noted == [i \in 1..Len(text) |->
                     IF i = q THEN text[i] \o TrailingNote ELSE text[i]]
        n     == IF p <= Len(text) THEN Indent(text[p]) ELSE 0
    IN  SubSeq(noted, 1, p - 1) \o <<AnnotationLine(n, args)>> \o fill
            \o SubSeq(noted, p, Len(noted))

AnnotatedTexts ==
    UNION {UNION {
        {Decorate(text, p, fill, 0, GoodArgs) : fill \in Fillers(0)}
        \cup {Decorate(text, p, <<>>, q, GoodArgs) : q \in 1..Len(text)}
        \cup {Decorate(text, 1, <<>>, 0, ShortArgs)}
        : p \in 1..(Len(text) + 1)}
        : text \in {LayoutNode(t, 0, st, Root, {}) :
                        t \in Documents(2), st \in Styles}}

\* An annotation with the token allowPrerelease: the two literals, and
\* other spellings of a boolean.
PrereleaseValues == {"true", "false", "1", "t", "TRUE", "False", "yes"}

PrereleaseArgs(v) == GoodArgs \o <<" ", "allowPrerelease", "=", v>>

PrereleaseTexts ==
    UNION {
        {Decorate(text, p, <<>>, 0, PrereleaseArgs(v)) :
            p \in 1..Len(text), v \in PrereleaseValues}
        : text \in {LayoutNode(t, 0, BlockStyle, Root, {}) : t \in Documents(1)}}

\* Two annotations in a row before line p, the first with allowPrerelease.
TwiceAnnotatedTexts ==
    UNION {
        {Decorate(Decorate(text, p, <<>>, 0, GoodArgs), p, fill, 0, PrereleaseArgs("true")) :
            p \in 1..Len(text), fill \in Fillers(0)}
        : text \in {LayoutNode(t, 0, st, Root, {}) :
                        t \in Documents(2), st \in Styles}}

ScanTexts ==
    PlainTexts \cup AnnotatedTexts \cup PrereleaseTexts \cup TwiceAnnotatedTexts

FilePath == "values.yaml"

NoError == [path |-> "", line |-> 0, msg |-> ""]
ScanError(line, msg) == [path |-> FilePath, line |-> line, msg |-> msg]

NoInfo == LineInfo(0, FALSE, <<>>, <<>>, FALSE, FALSE)
NoFile == [Value |-> Null, CM |-> {}]

ScanIdle ==
    /\ lines = <<>> /\ yf = NoFile /\ lineNo = 0 /\ stack = newPathStack
    /\ pending = NoDirective /\ info = NoInfo /\ out = <<>>
    /\ scanPc = "done" /\ scanErr = NoError

-----------------------------------------------------------------------------
(* The parse, mutate, render cycle of one document (main.go: ParseBytes,   *)
(* then SetString / ApplyChartVersionBump, then Render).                   *)

MaxCalls == 2

NoCall == [op |-> "none", path |-> <<>>, value |-> <<>>, lvl |-> NoChange,
           before |-> NoFile, changed |-> FALSE, err |-> FALSE,
           found |-> FALSE, text |-> <<>>]

\* A call with what it returned: (changed, err) or (text, found, err).
Call(op, path, value, lvl, before, r) ==
    [op |-> op, path |-> path, value |-> value, lvl |-> lvl,
     before |-> before, changed |-> r.changed, err |-> r.err,
     found |-> r.found, text |-> r.text]

Returned(changed, err) ==
    [changed |-> changed, err |-> err, found |-> FALSE, text |-> <<>>]

\* What is kept of the call before the last: not the File it started from.
Earlier(c) == [c EXCEPT !.before = NoFile]

DocIdle ==
    /\ docText = <<>> /\ doc = NoFile /\ calls = 0
    /\ last = NoCall /\ prev = NoCall /\ rendered = <<>>

\* A Chart.yaml with a head comment and an inline comment on its version.
ChartText(ver) ==
    <<NoteLine(0),
      <<"name", ":", " ", "test">>,
      <<"version", ":", " ">> \o ver \o TrailingNote,
      <<"appVersion", ":", " ", "2", ".", "0", ".", "0">>>>

ChartVersions == {<<"1", ".", "2", ".", "3">>, <<"v", "1", ".", "2", ".", "3">>,
                  <<"1", ".", "9", ".", "9">>, <<"x">>}

ChartTexts ==
    {ChartText(ver) : ver \in ChartVersions}
    \cup {<<NoteLine(0), <<"name", ":", " ", "test">>>>}

\* Values files: small documents in each style, and with comments.
NoteAt(path, pos) == [path |-> path, pos |-> pos, texts |-> <<<<" ", "note">>>>]

FirstPath(t) ==
    LET ps == LinePaths(LayoutNode(t, 0, BlockStyle, Root, {}))
    IN  (CHOOSE e \in ps : \A o \in ps : e.ln <= o.ln).path

ValuesTexts ==
    {LayoutNode(t, 0, st, Root, {}) :
         t \in {Relabel(x, 1).node : x \in {y \in TreesOf(2, 2, FALSE) : y.kind # "scalar"}},
         st \in Styles}
    \cup {LayoutNode(t, 0, EncoderStyle, Root,
                     {NoteAt(FirstPath(t), "head"), NoteAt(FirstPath(t), "line")}) :
              t \in {Relabel(x, 1).node : x \in {y \in TreesOf(2, 2, FALSE) : y.kind # "scalar"}}}

DocTexts == ChartTexts \cup ValuesTexts

\* The addresses and the values the calls are made with.
SetPaths(b) ==
    {e.path : e \in LinePaths(b)}
    \cup {<<"$", ".", "image">>, <<"$", ".", "digest">>, <<"$", "[", "0", "]">>}

SetValues == {<<"v1">>, <<"n">>}

\* Addresses that name no leaf of most documents: an index past the end of
\* a sequence (last step, inner step), a key under a missing key, a key
\* step and an index step on whatever $.image is.
OddPaths ==
    {<<"$", ".", "image", "[", "2", "]">>,
     <<"$", ".", "image", "[", "2", "]", ".", "tag">>,
     <<"$", ".", "missing", ".", "tag">>,
     <<"$", ".", "image", ".", "tag">>,
     <<"$", ".", "image", "[", "0", "]">>,
     <<"$", ".", "image", "[", "0", "]", ".", "tag">>,
     <<"$", "[", "0", "]", ".", "digest">>}

\* The calls of SetString: every address of the text with every value, the
\* odd addresses with one value.
SetCalls(b) ==
    {<<yamlPath, newValue>> : yamlPath \in SetPaths(b), newValue \in SetValues}
    \cup {<<yamlPath, <<"n">>>> : yamlPath \in OddPaths}

-----------------------------------------------------------------------------
(* The semver engine's inputs.                                             *)

MaxNum == 1
MaxDeps == 2

\* One dot-separated part of a version text: the numbers up to MaxNum, a
\* number whose successor has one more digit, and a part that is no number.
PartTexts ==
    {Itoa(n) : n \in 0..MaxNum} \cup {<<"9">>, <<"x">>}

ThreePartTexts ==
    {x \o <<".">> \o y \o <<".">> \o z : x \in PartTexts, y \in PartTexts, z \in PartTexts}

NotSemver == <<"n", "o", "t", "-", "s", "e", "m", "v", "e", "r">>

OddTexts ==
    { <<>>, NotSemver, <<"1", ".", "2", ".", "3">>,
      <<"1", ".", "2">>,
      <<"1", ".", "2", ".", "3", ".", "4">>,
      <<" ", "1", ".", "2", ".", "3", " ">>,
      <<"v", "v", "1", ".", "2", ".", "3">>,
      <<"1", ".", "2", ".", "3", "-", "r", "c">>,
      <<"-", "1", ".", "2", ".", "3">>,
      <<"+", "1", ".", "2", ".", "3">>,
      <<"1", ".", "-", "1", ".", "3">>,
      <<"0", "1", ".", "2", ".", "3">> }

VersionTexts ==
    ThreePartTexts \cup {<<"v">> \o t : t \in ThreePartTexts} \cup OddTexts

\* The versions of the tests of Compare, and one text that is no version.
V123 == <<"1", ".", "2", ".", "3">>
V124 == <<"1", ".", "2", ".", "4">>
V130 == <<"1", ".", "3", ".", "0">>
V200 == <<"2", ".", "0", ".", "0">>

DepVersions == {V123, V124, V200}
AppVersions == {V123, V124, <<"v">> \o V130, <<"x">>}
DepNames == {"redis", "postgres", "nginx"}

UniqueNames(deps) ==
    \A i, j \in 1..Len(deps) : deps[i].Name = deps[j].Name => i = j

DepLists ==
    UNION {
        {d \in [1..n -> [Name : DepNames, Version : DepVersions]] : UniqueNames(d)}
        : n \in 0..MaxDeps}

BaseDepVersions == {V123, V130}

BaseDepLists ==
    UNION {
        {d \in [1..n -> [Name : DepNames, Version : BaseDepVersions]] : UniqueNames(d)}
        : n \in 0..MaxDeps}

\* The addresses given to parseSimpleYAMLPath: "$" followed by every string
\* of up to MaxAddrLen characters of the alphabet, the short strings
\* without "$", and the addresses of the examples.
MaxAddrLen == 4

AddrAlphabet == {"$", ".", "[", "]", "a", "0", "-"}

RECURSIVE SeqsUpTo(_, _)
SeqsUpTo(S, n) ==
    IF n = 0 THEN {<<>>}
    ELSE LET r == SeqsUpTo(S, n - 1)
         IN  r \cup {Append(t, c) : t \in r, c \in S}

ExampleAddrs ==
    { <<"$", ".", "a", ".", "b", "[", "0", "]", ".", "c">>,
      <<"$", "[", "0", "]", ".", "a">>,
      <<"$", ".", "a", "[", "0", "]", "b">>,
      <<"$", ".", "a", "[", "-", "0", "]">>,
      <<"$", ".", "a", "[", "+", "0", "]">>,
      <<"$", ".", "a", "[", "1", "0", "]", "[", "0", "]">> }

AddrTexts ==
    {<<"$">> \o t : t \in SeqsUpTo(AddrAlphabet, MaxAddrLen)}
    \cup SeqsUpTo(AddrAlphabet, 2) \cup ExampleAddrs

\* The tags a registry lists: the same version with and without "v" and
\* with fewer numbers, a lower version, a prerelease above them all, and a
\* tag that is no version.  A listing holds up to MaxTags different tags,
\* in any order.
MaxTags == 3

T100 == <<"1", ".", "0", ".", "0">>
Tv100 == <<"v", "1", ".", "0", ".", "0">>
T10 == <<"1", ".", "0">>
Tv10 == <<"v", "1", ".", "0">>
T090 == <<"0", ".", "9", ".", "0">>
T110rc == <<"1", ".", "1", ".", "0", "-", "r", "c">>
Tlatest == <<"l", "a", "t", "e", "s", "t">>

Tags == {T100, Tv100, T10, Tv10, T090, T110rc, Tlatest}

TagLists ==
    UNION {
        {l \in [1..n -> Tags] : \A i, j \in 1..n : l[i] = l[j] => i = j}
        : n \in 0..MaxTags}

\* No constraint, "<1.0.0", ">=1.0.0" and a text that is no constraint.
Constraints ==
    { <<>>, <<"<">> \o T100, <<">", "=">> \o T100, <<"?">> }

\* ^(.*)$, ^v(.*)$, ^v, ^1, ^latest$, ^1\.0$ and a text that does not
\* compile.
Regexps ==
    { Regexp(<<>>, FALSE, TRUE, TRUE), Regexp(<<"v">>, FALSE, TRUE, TRUE),
      Regexp(<<"v">>, FALSE, FALSE, TRUE), Regexp(<<"1">>, FALSE, FALSE, TRUE),
      Regexp(Tlatest, TRUE, FALSE, TRUE), Regexp(T10, TRUE, FALSE, TRUE),
      Regexp(<<"(">>, FALSE, FALSE, FALSE) }

NoMeta == [AppVersion |-> <<>>, Dependencies |-> <<>>]

\* main before it runs: what the variables of main hold in the other
\* specifications.
NoText == <<>>

NoDisk == [chart |-> NoText, values |-> NoText]

NoRun == [anyFileWritten |-> FALSE, curBytes |-> NoText, lvl |-> NoChange,
          changed |-> FALSE, out |-> NoText, didWriteChart |-> FALSE, readAt |-> 0]

NoFlags == [write |-> FALSE, updateImages |-> FALSE, updateDeps |-> FALSE,
            githubOutput |-> FALSE]

Resolved(text) == [ok |-> TRUE, text |-> text]

Unresolved == [ok |-> FALSE, text |-> NoText]

NoEnv == [base |-> NoText, disk |-> NoDisk, tag |-> Unresolved,
          digest |-> Unresolved, latest |-> Unresolved]

MainIdle ==
    /\ mainFlags = NoFlags /\ mainEnv = NoEnv /\ mainDisk = NoDisk
    /\ mainPc = "idle" /\ mainRun = NoRun /\ mainWrites = <<>>
    /\ mainStdout = <<>> /\ mainOutput = <<>>

SemverIdle ==
    /\ svOp = "idle" /\ svA = <<>> /\ svB = <<>> /\ svLvl = NoChange
    /\ svBase = NoMeta /\ svCur = NoMeta /\ svPc = "done" /\ svRet = NoChange

InitCompare ==
    /\ svOp = "Compare" /\ svA \in VersionTexts /\ svB \in VersionTexts
    /\ svLvl = NoChange /\ svBase = NoMeta /\ svCur = NoMeta

InitBump ==
    /\ svOp = "BumpChartVersion" /\ svA \in VersionTexts /\ svB = <<>>
    /\ svLvl \in ChangeLevels /\ svBase = NoMeta /\ svCur = NoMeta

InitComputeChangeLevel ==
    /\ svOp = "ComputeChangeLevel" /\ svA = <<>> /\ svB = <<>> /\ svLvl = NoChange
    /\ svBase \in [AppVersion : {V123}, Dependencies : BaseDepLists]
    /\ svCur \in [AppVersion : AppVersions, Dependencies : DepLists]

InitParse ==
    /\ svOp = "Parse" /\ svA \in VersionTexts /\ svB = <<>>
    /\ svLvl = NoChange /\ svBase = NoMeta /\ svCur = NoMeta

InitParseSimpleYAMLPath ==
    /\ svOp = "parseSimpleYAMLPath" /\ svA \in AddrTexts /\ svB = <<>>
    /\ svLvl = NoChange /\ svBase = NoMeta /\ svCur = NoMeta

InitPickSemverTag ==
    /\ svOp = "pickSemverTag" /\ svA \in TagLists
    /\ svB \in [constraint : Constraints, allowPrerelease : BOOLEAN]
    /\ svLvl = NoChange /\ svBase = NoMeta /\ svCur = NoMeta

InitPickRegexTag ==
    /\ svOp = "pickRegexTag" /\ svA \in TagLists
    /\ svB \in [tagRegex : Regexps, allowPrerelease : BOOLEAN]
    /\ svLvl = NoChange /\ svBase = NoMeta /\ svCur = NoMeta

InitPickLiteralTag ==
    /\ svOp = "pickLiteralTag" /\ svA \in TagLists
    /\ svB \in [tagRegex : Regexps]
    /\ svLvl = NoChange /\ svBase = NoMeta /\ svCur = NoMeta

InitSemver ==
    /\ ScanIdle
    /\ DocIdle
    /\ MainIdle
    /\ svPc = "call" /\ svRet = NoChange
    /\ (InitCompare \/ InitBump \/ InitComputeChangeLevel
            \/ InitParse \/ InitParseSimpleYAMLPath
            \/ InitPickSemverTag \/ InitPickRegexTag \/ InitPickLiteralTag)

CallCompare ==
    /\ svPc = "call" /\ svOp = "Compare"
    /\ svRet' = Compare(svA, svB)
    /\ svPc' = "done"
    /\ UNCHANGED <<svOp, svA, svB, svLvl, svBase, svCur>>
    /\ UNCHANGED <<scanVars, docVars, mainVars>>

CallBumpChartVersion ==
    /\ svPc = "call" /\ svOp = "BumpChartVersion"
    /\ svRet' = BumpChartVersion(svA, svLvl)
    /\ svPc' = "done"
    /\ UNCHANGED <<svOp, svA, svB, svLvl, svBase, svCur>>
    /\ UNCHANGED <<scanVars, docVars, mainVars>>

CallComputeChangeLevel ==
    /\ svPc = "call" /\ svOp = "ComputeChangeLevel"
    /\ svRet' = ComputeChangeLevel(svBase, svCur)
    /\ svPc' = "done"
    /\ UNCHANGED <<svOp, svA, svB, svLvl, svBase, svCur>>
    /\ UNCHANGED <<scanVars, docVars, mainVars>>

CallParse ==
    /\ svPc = "call" /\ svOp = "Parse"
    /\ svRet' = Parse(svA)
    /\ svPc' = "done"
    /\ UNCHANGED <<svOp, svA, svB, svLvl, svBase, svCur>>
    /\ UNCHANGED <<scanVars, docVars, mainVars>>

CallParseSimpleYAMLPath ==
    /\ svPc = "call" /\ svOp = "parseSimpleYAMLPath"
    /\ svRet' = parseSimpleYAMLPath(svA)
    /\ svPc' = "done"
    /\ UNCHANGED <<svOp, svA, svB, svLvl, svBase, svCur>>
    /\ UNCHANGED <<scanVars, docVars, mainVars>>

CallPickSemverTag ==
    /\ svPc = "call" /\ svOp = "pickSemverTag"
    /\ svRet' = pickSemverTag(svA, svB.constraint, svB.allowPrerelease)
    /\ svPc' = "done"
    /\ UNCHANGED <<svOp, svA, svB, svLvl, svBase, svCur>>
    /\ UNCHANGED <<scanVars, docVars, mainVars>>

CallPickRegexTag ==
    /\ svPc = "call" /\ svOp = "pickRegexTag"
    /\ svRet' = pickRegexTag(svA, svB.tagRegex, svB.allowPrerelease)
    /\ svPc' = "done"
    /\ UNCHANGED <<svOp, svA, svB, svLvl, svBase, svCur>>
    /\ UNCHANGED <<scanVars, docVars, mainVars>>

CallPickLiteralTag ==
    /\ svPc = "call" /\ svOp = "pickLiteralTag"
    /\ svRet' = pickLiteralTag(svA, svB.tagRegex)
    /\ svPc' = "done"
    /\ UNCHANGED <<svOp, svA, svB, svLvl, svBase, svCur>>
    /\ UNCHANGED <<scanVars, docVars, mainVars>>

NextSemver ==
    \/ CallCompare
    \/ CallBumpChartVersion
    \/ CallComputeChangeLevel
    \/ CallParse
    \/ CallParseSimpleYAMLPath
    \/ CallPickSemverTag
    \/ CallPickRegexTag
    \/ CallPickLiteralTag

SpecSemver == InitSemver /\ [][NextSemver]_vars

-----------------------------------------------------------------------------
(* ScanFileForImageDirectives as a state machine: one step per line read,  *)
(* and the step after the last line.                                       *)

\* sort.Slice(out, ...) by FilePath and Line: the lines are distinct.
RECURSIVE SortByLine(_)
SortByLine(ds) ==
    IF ds = <<>> THEN <<>>
    ELSE LET i == CHOOSE k \in 1..Len(ds) : \A j \in 1..Len(ds) : ds[k].Line <= ds[j].Line
         IN  <<ds[i]>> \o SortByLine(SubSeq(ds, 1, i - 1) \o SubSeq(ds, i + 1, Len(ds)))

Fail(line, msg) ==
    /\ scanPc' = "error"
    /\ scanErr' = ScanError(line, msg)
    /\ out' = <<>>

ScanDirectiveLine ==
    /\ scanPc = "scan" /\ lineNo < Len(lines)
    /\ IsDirectiveLine(lines[lineNo + 1])
    /\ lineNo' = lineNo + 1
    /\ LET r == parseDirectiveArgs(DirectiveArgs(lines[lineNo + 1]))
       IN  IF r.err
           THEN Fail(lineNo + 1, "directive") /\ UNCHANGED pending
           ELSE /\ pending' = [r.d EXCEPT !.FilePath = FilePath, !.Line = lineNo + 1]
                /\ UNCHANGED <<out, scanPc, scanErr>>
    /\ UNCHANGED <<lines, yf, stack, info>>
    /\ UNCHANGED <<semverVars, docVars, mainVars>>

ScanSkipLine ==
    /\ scanPc = "scan" /\ lineNo < Len(lines)
    /\ ~IsDirectiveLine(lines[lineNo + 1])
    /\ LET trim == TrimSpace(lines[lineNo + 1])
       IN  trim = <<>> \/ HasPrefix(trim, <<"#">>)
    /\ lineNo' = lineNo + 1
    /\ UNCHANGED <<lines, yf, stack, pending, info, out, scanPc, scanErr>>
    /\ UNCHANGED <<semverVars, docVars, mainVars>>

ScanContentLine ==
    /\ scanPc = "scan" /\ lineNo < Len(lines)
    /\ ~IsDirectiveLine(lines[lineNo + 1])
    /\ LET trim == TrimSpace(lines[lineNo + 1])
       IN  ~(trim = <<>> \/ HasPrefix(trim, <<"#">>))
    /\ lineNo' = lineNo + 1
    /\ LET li == parseYAMLContentLine(lines[lineNo + 1])
           ps == applyLine(stack, li)
       IN  IF li.err
           THEN Fail(lineNo + 1, "line") /\ UNCHANGED <<stack, pending, info>>
           ELSE /\ stack' = ps
                /\ info' = li
                /\ IF pending = NoDirective
                   THEN UNCHANGED <<pending, out, scanPc, scanErr>>
                   ELSE IF ~li.isScalarKV
                   THEN Fail(lineNo + 1, "non-scalar") /\ UNCHANGED pending
                   ELSE /\ out' = Append(out,
                                    [pending EXCEPT !.Key = li.key,
                                                    !.CurrentText = li.valueText,
                                                    !.YAMLPath = currentPathWithLeaf(ps, li)])
                        /\ pending' = NoDirective
                        /\ UNCHANGED <<scanPc, scanErr>>
    /\ UNCHANGED <<lines, yf>>
    /\ UNCHANGED <<semverVars, docVars, mainVars>>

ScanEOF ==
    /\ scanPc = "scan" /\ lineNo = Len(lines)
    /\ IF pending # NoDirective
       THEN Fail(pending.Line, "no key")
       ELSE /\ out' = SortByLine(out)
            /\ scanPc' = "done"
            /\ UNCHANGED scanErr
    /\ UNCHANGED <<lines, yf, lineNo, stack, pending, info>>
    /\ UNCHANGED <<semverVars, docVars, mainVars>>

InitScan ==
    /\ SemverIdle
    /\ DocIdle
    /\ MainIdle
    /\ lines \in ScanTexts
    /\ yf = ParseBytes(lines)
    /\ lineNo = 0 /\ stack = newPathStack /\ pending = NoDirective
    /\ info = NoInfo /\ out = <<>> /\ scanPc = "scan" /\ scanErr = NoError

NextScan ==
    \/ ScanDirectiveLine
    \/ ScanSkipLine
    \/ ScanContentLine
    \/ ScanEOF

SpecScan == InitScan /\ [][NextScan]_vars

-----------------------------------------------------------------------------
(* The document cycle as a state machine.                                  *)

InitDoc ==
    /\ SemverIdle
    /\ ScanIdle
    /\ MainIdle
    /\ docText \in DocTexts
    /\ doc = ParseBytes(docText)
    /\ calls = 0 /\ last = NoCall /\ prev = NoCall /\ rendered = <<>>

\* A read or the rendering ends the cycle the model follows: neither
\* changes the document, so every document is reached without them.
CallSetString ==
    /\ last.op \notin {"Render", "GetString"} /\ calls < MaxCalls
    /\ \E c \in SetCalls(docText) :
           LET r == SetString(doc, c[1], c[2])
           IN  /\ doc' = r.f
               /\ last' = Call("SetString", c[1], c[2], NoChange, doc,
                               Returned(r.changed, r.err))
    /\ prev' = Earlier(last)
    /\ calls' = calls + 1
    /\ UNCHANGED <<docText, rendered>>
    /\ UNCHANGED <<semverVars, scanVars, mainVars>>

CallApplyChartVersionBump ==
    /\ last.op \notin {"Render", "GetString"} /\ calls < MaxCalls
    /\ docText \in ChartTexts
    /\ \E lvl \in ChangeLevels :
           LET r == ApplyChartVersionBump(doc, lvl)
           IN  /\ doc' = r.f
               /\ last' = Call("ApplyChartVersionBump", VersionPath, <<>>, lvl, doc,
                               Returned(r.changed, r.err))
    /\ prev' = Earlier(last)
    /\ calls' = calls + 1
    /\ UNCHANGED <<docText, rendered>>
    /\ UNCHANGED <<semverVars, scanVars, mainVars>>

CallGetString ==
    /\ last.op \notin {"Render", "GetString"} /\ calls < MaxCalls
    /\ \E yamlPath \in SetPaths(docText) \cup OddPaths :
           LET g == GetString(doc, yamlPath)
           IN  last' = Call("GetString", yamlPath, <<>>, NoChange, doc,
                            [changed |-> FALSE, err |-> g.err,
                             found |-> g.found, text |-> g.text])
    /\ prev' = Earlier(last)
    /\ calls' = calls + 1
    /\ UNCHANGED <<docText, doc, rendered>>
    /\ UNCHANGED <<semverVars, scanVars, mainVars>>

CallRender ==
    /\ last.op \notin {"Render", "GetString"}
    /\ rendered' = Render(doc)
    /\ last' = Call("Render", <<>>, <<>>, NoChange, doc, Returned(FALSE, FALSE))
    /\ prev' = Earlier(last)
    /\ UNCHANGED <<docText, doc, calls>>
    /\ UNCHANGED <<semverVars, scanVars, mainVars>>

NextDoc == CallSetString \/ CallGetString \/ CallApplyChartVersionBump \/ CallRender

SpecDoc == InitDoc /\ [][NextDoc]_vars

-----------------------------------------------------------------------------
(* cmd/helm-chart-bumper: main.  The chart directory holds Chart.yaml and  *)
(* values.yaml; the image registry and the Helm repository are the         *)
(* environment, which answers every lookup of a run in the same way.       *)

\* yaml.Unmarshal of one string field of a struct.
StringField(items, key) ==
    IF ~mapSliceHas(items, key) THEN [err |-> FALSE, text |-> NoText]
    ELSE LET v == mapSliceGet(items, key)
         IN  IF v.kind = "scalar" THEN [err |-> FALSE, text |-> v.text]
             ELSE IF v.kind = "null" THEN [err |-> FALSE, text |-> NoText]
             ELSE [err |-> TRUE, text |-> NoText]

Dependency(item) ==
    [Name       |-> StringField(item.items, <<"name">>).text,
     Version    |-> StringField(item.items, <<"version">>).text,
     Repository |-> StringField(item.items, <<"repository">>).text]

DependencyError(item) ==
    \/ item.kind # "map"
    \/ StringField(item.items, <<"name">>).err
    \/ StringField(item.items, <<"version">>).err
    \/ StringField(item.items, <<"repository">>).err

\* chart.LoadMeta: the appVersion and the dependencies of a Chart.yaml,
\* from the decoded document.
MetaOf(t) ==
    LET fail == [err |-> TRUE, meta |-> NoMeta]
        app  == StringField(t.items, <<"appVersion">>)
        deps == IF mapSliceHas(t.items, <<"dependencies">>)
                THEN mapSliceGet(t.items, <<"dependencies">>) ELSE Null
    IN  IF t.kind = "null" THEN [err |-> FALSE, meta |-> NoMeta]
        ELSE IF t.kind # "map" THEN fail
        ELSE IF app.err \/ StringField(t.items, <<"version">>).err THEN fail
        ELSE IF deps.kind = "null"
        THEN [err |-> FALSE, meta |-> [AppVersion |-> app.text, Dependencies |-> <<>>]]
        ELSE IF deps.kind # "seq" THEN fail
        ELSE IF \E k \in 1..Len(deps.items) : DependencyError(deps.items[k].Value) THEN fail
        ELSE [err |-> FALSE,
              meta |-> [AppVersion |-> app.text,
                        Dependencies |-> [k \in 1..Len(deps.items) |->
                                             Dependency(deps.items[k].Value)]]]

LoadMeta(chartYAML) == MetaOf(ParseBytes(chartYAML).Value)

\* ScanFileForImageDirectives as a function of the lines of the file.
RECURSIVE ScanFrom(_, _, _, _, _, _)
ScanFrom(path, ls, i, ps, pend, ds) ==
    LET fail == [err |-> TRUE, dirs |-> <<>>]
    IN  IF i > Len(ls)
        THEN IF pend # NoDirective THEN fail
             ELSE [err |-> FALSE, dirs |-> SortByLine(ds)]
        ELSE IF IsDirectiveLine(ls[i])
        THEN LET r == parseDirectiveArgs(DirectiveArgs(ls[i]))
             IN  IF r.err THEN fail
                 ELSE ScanFrom(path, ls, i + 1, ps,
                               [r.d EXCEPT !.FilePath = path, !.Line = i], ds)
        ELSE IF TrimSpace(ls[i]) = <<>> \/ HasPrefix(TrimSpace(ls[i]), <<"#">>)
        THEN ScanFrom(path, ls, i + 1, ps, pend, ds)
        ELSE LET li  == parseYAMLContentLine(ls[i])
                 ps2 == applyLine(ps, li)
             IN  IF li.err THEN fail
                 ELSE IF pend = NoDirective THEN ScanFrom(path, ls, i + 1, ps2, pend, ds)
                 ELSE IF ~li.isScalarKV THEN fail
                 ELSE ScanFrom(path, ls, i + 1, ps2, NoDirective,
                               Append(ds, [pend EXCEPT !.Key = li.key,
                                                       !.CurrentText = li.valueText,
                                                       !.YAMLPath = currentPathWithLeaf(ps2, li)]))

ScanFileForImageDirectives(path, ls) ==
    ScanFrom(path, ls, 1, newPathStack, NoDirective, <<>>)

\* strings.LastIndex for a one-token separator: 0 when there is none.
LastIndex(t, c) ==
    IF \E i \in 1..Len(t) : t[i] = c
    THEN CHOOSE i \in 1..Len(t) : t[i] = c /\ \A j \in (i + 1)..Len(t) : t[j] # c
    ELSE 0

parentYAMLPath(p) ==
    IF ~HasPrefix(p, <<"$", ".">>) THEN p
    ELSE IF LastIndex(p, ".") <= 2 THEN <<"$">>
    ELSE SubSeq(p, 1, LastIndex(p, ".") - 1)

\* strings.ToLower of a strategy name.
ToLower(t) ==
    [i \in 1..Len(t) |->
        CASE t[i] = "Semver" -> "semver"
          [] t[i] = "Digest" -> "digest"
          [] t[i] = "Latest" -> "latest"
          [] OTHER -> t[i]]

\* The registry has one digest per tag: env.digest followed by the tag.
DigestOf(tag, env) ==
    IF ~tag.found \/ TrimSpace(tag.text) = <<>> THEN Unresolved
    ELSE IF ~env.digest.ok THEN Unresolved
    ELSE Resolved(env.digest.text \o tag.text)

\* The value a directive resolves to: imageresolver.ResolveDigest of the
\* sibling tag, or imageresolver.ResolveTag.
StrategyOf(d) == ToLower(IF d.Strategy = <<>> THEN <<"semver">> ELSE d.Strategy)

NewValue(ast, d, env) ==
    IF d.Image = <<>> THEN Unresolved
    ELSE IF StrategyOf(d) = <<"digest">>
    THEN DigestOf(GetString(ast, parentYAMLPath(d.YAMLPath) \o <<".", "tag">>), env)
    ELSE IF StrategyOf(d) \in {<<"literal">>, <<"regex">>, <<"semver">>} THEN env.tag
    ELSE Unresolved

\* The loop over the directives of one file in updateImagesInChartDir: the
\* value is resolved, then set.
RECURSIVE ApplyDirectives(_, _, _, _, _)
RECURSIVE ApplyNewValue(_, _, _, _, _, _)
RECURSIVE ApplySet(_, _, _, _, _)

ApplySet(dirs, i, fileChanged, env, c) ==
    IF c.err THEN [err |-> TRUE, f |-> c.f, changed |-> fileChanged]
    ELSE ApplyDirectives(c.f, dirs, i + 1, fileChanged \/ c.changed, env)

ApplyNewValue(ast, dirs, i, fileChanged, env, v) ==
    IF ~v.ok THEN [err |-> TRUE, f |-> ast, changed |-> fileChanged]
    ELSE ApplySet(dirs, i, fileChanged, env, SetString(ast, dirs[i].YAMLPath, v.text))

ApplyDirectives(ast, dirs, i, fileChanged, env) ==
    IF i > Len(dirs) THEN [err |-> FALSE, f |-> ast, changed |-> fileChanged]
    ELSE ApplyNewValue(ast, dirs, i, fileChanged, env, NewValue(ast, dirs[i], env))

\* What a function that may write files returns: its results, the files
\* after it and the files it wrote, in order.
Outcome(written, err, disk, writes) ==
    [written |-> written, err |-> err, disk |-> disk, writes |-> writes]

WriteEvent(by, file) == [by |-> by, file |-> file]

\* updateImagesInChartDir: the files of the chart directory in the order
\* the map of files is ranged over; each is scanned, its directives
\* applied, the document rendered and written when its bytes differ.
RECURSIVE UpdateFiles(_, _, _, _, _, _)
RECURSIVE UpdateScanned(_, _, _, _, _, _, _)
RECURSIVE UpdateApplied(_, _, _, _, _, _, _)
RECURSIVE UpdateRendered(_, _, _, _, _, _, _)

UpdateRendered(files, i, disk, env, anyWritten, writes, outBytes) ==
    IF disk[files[i]] # outBytes
    THEN UpdateFiles(files, i + 1, [disk EXCEPT ![files[i]] = outBytes], env, TRUE,
                     Append(writes, WriteEvent("images", files[i])))
    ELSE UpdateFiles(files, i + 1, disk, env, anyWritten, writes)

\* A mutant of UpdateApplied: when a directive fails, the document is
\* written as the directives before it left it.
UpdateAppliedPartial(files, i, disk, env, anyWritten, writes, r) ==
    IF r.err
    THEN Outcome(FALSE, TRUE, [disk EXCEPT ![files[i]] = Render(r.f)],
                 Append(writes, WriteEvent("images", files[i])))
    ELSE IF ~r.changed THEN UpdateFiles(files, i + 1, disk, env, anyWritten, writes)
    ELSE UpdateRendered(files, i, disk, env, anyWritten, writes, Render(r.f))

UpdateApplied(files, i, disk, env, anyWritten, writes, r) ==
    IF r.err THEN Outcome(FALSE, TRUE, disk, writes)
    ELSE IF ~r.changed THEN UpdateFiles(files, i + 1, disk, env, anyWritten, writes)
    ELSE UpdateRendered(files, i, disk, env, anyWritten, writes, Render(r.f))

UpdateScanned(files, i, disk, env, anyWritten, writes, scan) ==
    IF scan.err THEN Outcome(FALSE, TRUE, disk, writes)
    ELSE IF Len(scan.dirs) = 0
    THEN UpdateFiles(files, i + 1, disk, env, anyWritten, writes)
    ELSE UpdateApplied(files, i, disk, env, anyWritten, writes,
                       ApplyDirectives(ParseBytes(disk[files[i]]), scan.dirs, 1, FALSE, env))

UpdateFiles(files, i, disk, env, anyWritten, writes) ==
    IF i > Len(files) THEN Outcome(anyWritten, FALSE, disk, writes)
    ELSE UpdateScanned(files, i, disk, env, anyWritten, writes,
                       ScanFileForImageDirectives(files[i], disk[files[i]]))

updateImagesInChartDir(disk, files, env) ==
    UpdateFiles(files, 1, disk, env, FALSE, <<>>)

\* helmdeps.ResolveLatestDependencies: for each dependency with a
\* repository, the latest version of the repository when it differs.
RECURSIVE ResolvedDeps(_, _, _)
ResolvedDeps(deps, i, latest) ==
    IF i > Len(deps) THEN <<>>
    ELSE (IF deps[i].Repository # <<>> /\ latest # <<>> /\ latest # deps[i].Version
          THEN <<[Index |-> i - 1, Name |-> deps[i].Name,
                  OldVersion |-> deps[i].Version, NewVersion |-> latest]>>
          ELSE <<>>) \o ResolvedDeps(deps, i + 1, latest)

ResolveFor(meta, env) ==
    IF meta.err THEN [err |-> TRUE, resolved |-> <<>>]
    ELSE IF \A k \in 1..Len(meta.meta.Dependencies) :
                meta.meta.Dependencies[k].Repository = <<>>
    THEN [err |-> FALSE, resolved |-> <<>>]
    ELSE IF ~env.latest.ok THEN [err |-> TRUE, resolved |-> <<>>]
    ELSE [err |-> FALSE,
          resolved |-> ResolvedDeps(meta.meta.Dependencies, 1, env.latest.text)]

ResolveLatestDependencies(chartYAML, env) == ResolveFor(LoadMeta(chartYAML), env)

DependencyVersionPath(index) ==
    <<"$", ".", "dependencies", "[">> \o Itoa(index) \o <<"]", ".", "version">>

\* The loop over the resolved dependencies in updateDepsInChartYAML.
RECURSIVE ApplyResolved(_, _, _, _)
RECURSIVE ApplyResolvedSet(_, _, _, _)

ApplyResolvedSet(resolved, i, changed, c) ==
    IF c.err THEN [err |-> TRUE, f |-> c.f, changed |-> changed]
    ELSE ApplyResolved(c.f, resolved, i + 1, changed \/ c.changed)

ApplyResolved(ast, resolved, i, changed) ==
    IF i > Len(resolved) THEN [err |-> FALSE, f |-> ast, changed |-> changed]
    ELSE IF resolved[i].NewVersion = <<>> \/ resolved[i].NewVersion = resolved[i].OldVersion
    THEN ApplyResolved(ast, resolved, i + 1, changed)
    ELSE ApplyResolvedSet(resolved, i, changed,
                          SetString(ast, DependencyVersionPath(resolved[i].Index),
                                    resolved[i].NewVersion))

\* updateDepsInChartYAML: the dependencies are resolved and set, the chart
\* rendered and written when its bytes differ.
DepsRendered(disk, outBytes) ==
    IF disk.chart # outBytes
    THEN Outcome(TRUE, FALSE, [disk EXCEPT !.chart = outBytes],
                 <<WriteEvent("deps", "chart")>>)
    ELSE Outcome(FALSE, FALSE, disk, <<>>)

DepsApplied(disk, r) ==
    IF r.err THEN Outcome(FALSE, TRUE, disk, <<>>)
    ELSE IF ~r.changed THEN Outcome(FALSE, FALSE, disk, <<>>)
    ELSE DepsRendered(disk, Render(r.f))

DepsResolved(disk, res) ==
    IF res.err THEN Outcome(FALSE, TRUE, disk, <<>>)
    ELSE IF Len(res.resolved) = 0 THEN Outcome(FALSE, FALSE, disk, <<>>)
    ELSE DepsApplied(disk, ApplyResolved(ParseBytes(disk.chart), res.resolved, 1, FALSE))

updateDepsInChartYAML(disk, env) ==
    DepsResolved(disk, ResolveLatestDependencies(disk.chart, env))

\* main.go 120-163 as a function of the bytes read: the metadata of the two
\* charts, the change level, the version bump and the rendering.
NoBump == [err |-> TRUE, lvl |-> NoChange, changed |-> FALSE, out |-> NoText]

Bumped(lvl, bump) ==
    IF bump.err THEN NoBump
    ELSE [err |-> FALSE, lvl |-> lvl, changed |-> bump.changed, out |-> Render(bump.f)]

BumpAtLevel(curBytes, lvl) ==
    Bumped(lvl, ApplyChartVersionBump(ParseBytes(curBytes), lvl))

Compared(curBytes, baseMeta, curMeta) ==
    IF baseMeta.err \/ curMeta.err THEN NoBump
    ELSE BumpAtLevel(curBytes, ComputeChangeLevel(baseMeta.meta, curMeta.meta))

BumpChart(baseBytes, curBytes) ==
    Compared(curBytes, LoadMeta(baseBytes), LoadMeta(curBytes))

\* A mutant of RunsUpdate: the update runs without --write.
RunsUpdateDry(write, update) == update

\* The flags under which an update step of main runs.
RunsUpdate(write, update) == write /\ update

\* A mutant of Changed: the version bump counts as a change, written or not.
ChangedBumped(run) == run.anyFileWritten \/ run.changed

\* The value main hands to writeGithubOutputChanged.
Changed(run) == run.anyFileWritten \/ run.didWriteChart

\* A mutant of StepAfter: the current chart is read before the updates run.
StepAfterReadFirst(pc) ==
    CASE pc = "start"        -> "readCur"
      [] pc = "readCur"      -> "updateImages"
      [] pc = "updateImages" -> "updateDeps"
      [] pc = "updateDeps"   -> "writeChart"
      [] pc = "writeChart"   -> "print"
      [] pc = "print"        -> "output"
      [] OTHER               -> "done"

\* The order of the steps of main.
StepAfter(pc) ==
    CASE pc = "start"        -> "updateImages"
      [] pc = "updateImages" -> "updateDeps"
      [] pc = "updateDeps"   -> "readCur"
      [] pc = "readCur"      -> "writeChart"
      [] pc = "writeChart"   -> "print"
      [] pc = "print"        -> "output"
      [] OTHER               -> "done"

\* The files of a run: a Chart.yaml with or without an annotation on its
\* appVersion and with or without a dependency, and a values.yaml.
V100 == <<"1", ".", "0", ".", "0">>
V110 == <<"1", ".", "1", ".", "0">>
V210 == <<"2", ".", "1", ".", "0">>

DigestArgs == GoodArgs \o <<" ", "strategy", "=", "Digest">>
LatestArgs == GoodArgs \o <<" ", "strategy", "=", "Latest">>

ChartYamlOf(ver, app, annotated, withDep) ==
    << <<"name", ":", " ", "test">>,
       <<"version", ":", " ">> \o ver >>
    \o (IF annotated THEN <<AnnotationLine(0, GoodArgs)>> ELSE <<>>)
    \o << <<"appVersion", ":", " ">> \o app >>
    \o (IF withDep
        THEN << <<"dependencies", ":">>,
                <<"-", " ", "name", ":", " ", "dep">>,
                <<" ", " ", "version", ":", " ">> \o V100,
                <<" ", " ", "repository", ":", " ", "https://e">> >>
        ELSE <<>>)

ChartYaml(ver, annotated, withDep) == ChartYamlOf(ver, V200, annotated, withDep)

ChartYamls ==
    {ChartYaml(ver, annotated, withDep) :
         ver \in {V123, <<"v">> \o V123}, annotated \in BOOLEAN, withDep \in BOOLEAN}

\* A base chart with an older appVersion.
OlderChart == ChartYamlOf(V123, V130, FALSE, TRUE)

ValuesYaml(notes) ==
    << <<"image", ":">>, <<" ", " ", "tag", ":", " ">> \o V100 >> \o notes

\* A tag with its annotation, then a digest with an annotation of the
\* given arguments, in the same map.
TagThen(args) ==
    << <<"image", ":">>,
       AnnotationLine(2, GoodArgs), <<" ", " ", "tag", ":", " ">> \o V100,
       AnnotationLine(2, args), <<" ", " ", "digest", ":", " ", "old">> >>

ValuesYamls ==
    { ValuesYaml(<<>>),
      << <<"image", ":">>, AnnotationLine(2, GoodArgs),
         <<" ", " ", "tag", ":", " ">> \o V100 >>,
      ValuesYaml(<<AnnotationLine(2, DigestArgs), <<" ", " ", "digest", ":", " ", "old">>>>),
      ValuesYaml(<<AnnotationLine(2, LatestArgs), <<" ", " ", "digest", ":", " ", "old">>>>),
      ValuesYaml(<<AnnotationLine(2, GoodArgs)>>),
      TagThen(DigestArgs), TagThen(LatestArgs),
      << <<"image", ":">>,
         AnnotationLine(2, DigestArgs), <<" ", " ", "digest", ":", " ", "old">>,
         AnnotationLine(2, GoodArgs), <<" ", " ", "tag", ":", " ">> \o V100 >> }

Flags == [write : BOOLEAN, updateImages : BOOLEAN, updateDeps : BOOLEAN,
          githubOutput : BOOLEAN]

Envs ==
    {[base |-> NoText, disk |-> NoDisk, tag |-> tag, digest |-> Resolved(<<"sha">>),
      latest |-> latest] :
         tag \in {Unresolved, Resolved(V200), Resolved(V210)},
         latest \in {Unresolved, Resolved(V100), Resolved(V110)}}

\* The base chart is the current chart as it is when the run starts, or
\* the older chart.
InitMain ==
    /\ SemverIdle
    /\ ScanIdle
    /\ DocIdle
    /\ mainFlags \in Flags
    /\ mainDisk \in [chart : ChartYamls, values : ValuesYamls]
    /\ \E e \in Envs : \E base \in {mainDisk.chart, OlderChart} :
           mainEnv = [e EXCEPT !.base = base, !.disk = mainDisk]
    /\ mainPc = StepAfter("start")
    /\ mainRun = NoRun
    /\ mainWrites = <<>> /\ mainStdout = <<>> /\ mainOutput = <<>>

\* main.go 96-107: the images are updated when --write and --update-images
\* are given; an error ends the run with exit status 2.
MainUpdateImages ==
    /\ mainPc = "updateImages"
    /\ IF RunsUpdate(mainFlags.write, mainFlags.updateImages)
       THEN \E files \in {<<"chart", "values">>, <<"values", "chart">>} :
            \E r \in {updateImagesInChartDir(mainDisk, files, mainEnv)} :
                /\ mainDisk' = r.disk
                /\ mainWrites' = mainWrites \o r.writes
                /\ IF r.err
                   THEN mainPc' = "exit" /\ UNCHANGED mainRun
                   ELSE /\ mainPc' = StepAfter("updateImages")
                        /\ mainRun' = [mainRun EXCEPT !.anyFileWritten = @ \/ r.written]
       ELSE /\ mainPc' = StepAfter("updateImages")
            /\ UNCHANGED <<mainDisk, mainWrites, mainRun>>
    /\ UNCHANGED <<mainFlags, mainEnv, mainStdout, mainOutput>>
    /\ UNCHANGED <<semverVars, scanVars, docVars>>

\* main.go 108-117: the dependencies are updated when --write and
\* --update-deps are given.
MainUpdateDeps ==
    /\ mainPc = "updateDeps"
    /\ IF RunsUpdate(mainFlags.write, mainFlags.updateDeps)
       THEN \E r \in {updateDepsInChartYAML(mainDisk, mainEnv)} :
                /\ mainDisk' = r.disk
                /\ mainWrites' = mainWrites \o r.writes
                /\ IF r.err
                   THEN mainPc' = "exit" /\ UNCHANGED mainRun
                   ELSE /\ mainPc' = StepAfter("updateDeps")
                        /\ mainRun' = [mainRun EXCEPT !.anyFileWritten = @ \/ r.written]
       ELSE /\ mainPc' = StepAfter("updateDeps")
            /\ UNCHANGED <<mainDisk, mainWrites, mainRun>>
    /\ UNCHANGED <<mainFlags, mainEnv, mainStdout, mainOutput>>
    /\ UNCHANGED <<semverVars, scanVars, docVars>>

\* main.go 120-163: the current chart is read, the change level computed,
\* the version bumped in the parsed chart and the chart rendered; an error
\* ends the run with exit status 2.
MainReadCur ==
    /\ mainPc = "readCur"
    /\ \E r \in {BumpChart(mainEnv.base, mainDisk.chart)} :
           IF r.err
           THEN /\ mainPc' = "exit"
                /\ mainRun' = [mainRun EXCEPT !.curBytes = mainDisk.chart,
                                              !.readAt = Len(mainWrites)]
           ELSE /\ mainPc' = StepAfter("readCur")
                /\ mainRun' = [mainRun EXCEPT !.curBytes = mainDisk.chart,
                                              !.lvl = r.lvl,
                                              !.changed = r.changed,
                                              !.out = r.out,
                                              !.readAt = Len(mainWrites)]
    /\ UNCHANGED <<mainFlags, mainEnv, mainDisk, mainWrites, mainStdout, mainOutput>>
    /\ UNCHANGED <<semverVars, scanVars, docVars>>

\* main.go 165-178: with --write, a changed chart is written unless its
\* rendered bytes are the bytes read.
MainWriteChart ==
    /\ mainPc = "writeChart"
    /\ IF mainFlags.write /\ mainRun.changed /\ mainRun.curBytes # mainRun.out
       THEN /\ mainDisk' = [mainDisk EXCEPT !.chart = mainRun.out]
            /\ mainWrites' = Append(mainWrites, WriteEvent("chart", "chart"))
            /\ mainRun' = [mainRun EXCEPT !.didWriteChart = TRUE]
       ELSE UNCHANGED <<mainDisk, mainWrites, mainRun>>
    /\ mainPc' = StepAfter("writeChart")
    /\ UNCHANGED <<mainFlags, mainEnv, mainStdout, mainOutput>>
    /\ UNCHANGED <<semverVars, scanVars, docVars>>

\* main.go 180-183: without --write the rendered chart goes to stdout.
MainPrint ==
    /\ mainPc = "print"
    /\ mainStdout' = IF ~mainFlags.write THEN Append(mainStdout, mainRun.out)
                     ELSE mainStdout
    /\ mainPc' = StepAfter("print")
    /\ UNCHANGED <<mainFlags, mainEnv, mainDisk, mainRun, mainWrites, mainOutput>>
    /\ UNCHANGED <<semverVars, scanVars, docVars>>

\* writeGithubOutputChanged: a line is appended to the file GITHUB_OUTPUT
\* names, when it names one.
MainOutput ==
    /\ mainPc = "output"
    /\ mainOutput' = IF ~mainFlags.githubOutput THEN mainOutput
                     ELSE IF Changed(mainRun) THEN Append(mainOutput, "changed=true")
                     ELSE Append(mainOutput, "changed=false")
    /\ mainPc' = StepAfter("output")
    /\ UNCHANGED <<mainFlags, mainEnv, mainDisk, mainRun, mainWrites, mainStdout>>
    /\ UNCHANGED <<semverVars, scanVars, docVars>>

NextMain ==
    \/ MainUpdateImages
    \/ MainUpdateDeps
    \/ MainReadCur
    \/ MainWriteChart
    \/ MainPrint
    \/ MainOutput

SpecMain == InitMain /\ [][NextMain]_vars

-----------------------------------------------------------------------------
(* Claims on the document model and the path resolver.                     *)

\* The address grammar: "$", then steps ".name" (a non-empty name over
\* letters, digits, "_", "-") and "[n]" (a non-negative decimal integer).
Punctuation == {"$", ".", "[", "]", " ", "\t", "+", ":", "#", "=", "\"", "'"}

RECURSIVE NameRun(_, _)
NameRun(a, i) == IF i <= Len(a) /\ a[i] \notin Punctuation THEN NameRun(a, i + 1) ELSE i

RECURSIVE DigitRun(_, _)
DigitRun(a, i) == IF i <= Len(a) /\ IsDigit(a[i]) THEN DigitRun(a, i + 1) ELSE i

NotAddress == [ok |-> FALSE, steps |-> <<>>]

RECURSIVE GrammarFrom(_, _, _)
GrammarFrom(a, i, steps) ==
    IF i > Len(a) THEN [ok |-> TRUE, steps |-> steps]
    ELSE IF a[i] = "." /\ NameRun(a, i + 1) > i + 1
    THEN GrammarFrom(a, NameRun(a, i + 1),
             Append(steps, [kind |-> "key", key |-> SubSeq(a, i + 1, NameRun(a, i + 1) - 1),
                            index |-> 0]))
    ELSE IF /\ a[i] = "[" /\ DigitRun(a, i + 1) > i + 1
            /\ DigitRun(a, i + 1) <= Len(a) /\ a[DigitRun(a, i + 1)] = "]"
    THEN GrammarFrom(a, DigitRun(a, i + 1) + 1,
             Append(steps, [kind |-> "index", key |-> <<>>,
                            index |-> DigitsVal(SubSeq(a, i + 1, DigitRun(a, i + 1) - 1))]))
    ELSE NotAddress

\* The steps of an address of the grammar.
GrammarSteps(a) ==
    IF a = <<>> \/ Head(a) # "$" THEN NotAddress ELSE GrammarFrom(a, 2, <<>>)

\* Where following the steps in a tree ends: at a node ("ok"), at a map
\* without the key ("missing"), at a node of the wrong shape for the step
\* ("mismatch"), at an index outside the sequence ("range").
RECURSIVE Follow(_, _, _)
Follow(cur, steps, i) ==
    IF i > Len(steps) THEN [res |-> "ok", at |-> 0, node |-> cur]
    ELSE IF steps[i].kind = "key"
    THEN IF cur.kind # "map" THEN [res |-> "mismatch", at |-> i, node |-> cur]
         ELSE IF \A k \in 1..Len(cur.items) : cur.items[k].Key # steps[i].key
         THEN [res |-> "missing", at |-> i, node |-> cur]
         ELSE Follow(cur.items[CHOOSE k \in 1..Len(cur.items) :
                                   cur.items[k].Key = steps[i].key].Value, steps, i + 1)
    ELSE IF cur.kind # "seq" THEN [res |-> "mismatch", at |-> i, node |-> cur]
         ELSE IF steps[i].index >= Len(cur.items)
         THEN [res |-> "range", at |-> i, node |-> cur]
         ELSE Follow(cur.items[steps[i].index + 1].Value, steps, i + 1)

\* Where the address of the last call ended in the document before it.
LastFollow == Follow(last.before.Value, GrammarSteps(last.path).steps, 1)

\* The sequences of a tree: the path of each with its number of items.
RECURSIVE SeqLens(_, _)
SeqLens(node, path) ==
    (IF node.kind = "seq" THEN {[path |-> path, len |-> Len(node.items)]} ELSE {})
    \cup UNION {SeqLens(node.items[k].Value,
                        IF node.kind = "seq" THEN IndexPath(path, k - 1)
                        ELSE KeyPath(path, node.items[k].Key)) :
                    k \in 1..Len(node.items)}

\* C11: Set never grows a sequence.  Every sequence of the document was a
\* sequence of at least as many items at that path when the text was
\* parsed; and a SetString with an index step, last or inner, outside the
\* sequence it is applied to returns an error and changes nothing.
C11_NeverGrows ==
    /\ \A q \in SeqLens(doc.Value, Root) :
           \E o \in SeqLens(ParseBytes(docText).Value, Root) :
               o.path = q.path /\ q.len <= o.len
    /\ (last.op = "SetString" /\ LastFollow.res = "range")
           => (last.err /\ ~last.changed /\ doc = last.before)

C11_Witness ==
    /\ last.op = "SetString" /\ last.err
    /\ LastFollow.res = "range"
    /\ LastFollow.at = Len(GrammarSteps(last.path).steps)
    /\ LastFollow.node.kind = "seq" /\ Len(LastFollow.node.items) = 2

\* C12: SetString returns an error when a key before the last step is
\* absent and when a step does not match the shape of the node it is
\* applied to; whenever it returns an error, the tree and the comments are
\* those before the call.
C12_SetErrors ==
    last.op = "SetString" =>
        /\ (LastFollow.res = "missing"
               /\ LastFollow.at < Len(GrammarSteps(last.path).steps)) => last.err
        /\ LastFollow.res = "mismatch" => last.err
        /\ last.err => (~last.changed /\ doc = last.before)

C12_Witness ==
    /\ last.op = "SetString" /\ last.err
    /\ LastFollow.res = "missing"
    /\ LastFollow.at < Len(GrammarSteps(last.path).steps)
    /\ last.before.CM # {}

\* C13: GetString on an address with an absent key before the last step
\* returns found=false without an error; on an address with a step that
\* does not match the shape of the node it is applied to, it returns an
\* error and not found=false without one.
C13_GetErrors ==
    last.op = "GetString" =>
        /\ (LastFollow.res = "missing"
               /\ LastFollow.at < Len(GrammarSteps(last.path).steps))
               => (~last.found /\ ~last.err)
        /\ LastFollow.res = "mismatch" => last.err

\* The steps of the last call before its final one, the final step, and the
\* parent of the final step before and after the call.
LastSteps == GrammarSteps(last.path).steps

LastInit == SubSeq(LastSteps, 1, Len(LastSteps) - 1)

LastLeaf == LastSteps[Len(LastSteps)]

ParentBefore == Follow(last.before.Value, LastInit, 1).node

ParentAfter == Follow(doc.Value, LastInit, 1).node

\* The maps of a tree.
RECURSIVE MapsOf(_)
MapsOf(node) ==
    (IF node.kind = "map" THEN {node.items} ELSE {})
    \cup UNION {MapsOf(node.items[k].Value) : k \in 1..Len(node.items)}

UniqueKeys(ms) == \A i, j \in 1..Len(ms) : ms[i].Key = ms[j].Key => i = j

\* C14: a SetString whose final step is a key that its parent map lacks
\* returns changed=true and appends the key with the new value after the
\* existing entries, which stay as they were; a SetString on an existing
\* key keeps the entries of the parent in number and order; and no map of
\* the document has a key twice.
C14_CreatesKey ==
    /\ \A ms \in MapsOf(doc.Value) : UniqueKeys(ms)
    /\ last.op = "SetString" =>
        /\ (LastFollow.res = "missing" /\ LastFollow.at = Len(LastSteps))
               => /\ last.changed /\ ~last.err
                  /\ ParentAfter.kind = "map"
                  /\ ParentAfter.items =
                         Append(ParentBefore.items, Item(LastLeaf.key, Scalar(last.value)))
        /\ (LastFollow.res = "ok" /\ LastLeaf.kind = "key")
               => /\ Len(ParentAfter.items) = Len(ParentBefore.items)
                  /\ \A k \in 1..Len(ParentBefore.items) :
                         /\ ParentAfter.items[k].Key = ParentBefore.items[k].Key
                         /\ ParentBefore.items[k].Key # LastLeaf.key
                                => ParentAfter.items[k] = ParentBefore.items[k]

\* C2: round trip.  Render of a parsed text on which no Set was made
\* returns the text: its lines, comments included, in their order.
C2_RoundTrip ==
    (last.op = "Render" /\ calls = 0) => rendered = docText

\* The node at an address of the grammar, Null when there is none.
NodeAt(f, addr) ==
    LET p == PathString(addr)
        w == WalkTo(f.Value, p.steps, 1)
    IN  IF p.err \/ w.err THEN Null ELSE w.node

SameSetTwice ==
    /\ last.op = "SetString" /\ prev.op = "SetString"
    /\ prev.path = last.path /\ prev.value = last.value
    /\ ~prev.err

\* C3: idempotent Set.  A SetString that follows a successful SetString of
\* the same address and value returns changed=false and leaves the tree,
\* the comment sidecar and so the rendered text as they were; and any
\* SetString whose leaf already holds the new value returns changed=false
\* and changes nothing.
C3_IdempotentSet ==
    /\ SameSetTwice
           => /\ ~last.changed /\ ~last.err
              /\ doc = last.before
              /\ Render(doc) = Render(last.before)
    /\ (last.op = "SetString" /\ NodeAt(last.before, last.path) = Scalar(last.value))
           => /\ ~last.changed /\ ~last.err
              /\ doc = last.before

C3_Witness ==
    /\ SameSetTwice
    /\ prev.changed /\ ~last.changed
    /\ NodeAt(doc, last.path) = Scalar(last.value)

\* C7: ApplyChartVersionBump.  With level none the version is not updated
\* (changed=false, $.version reads back as before); with patch, minor or
\* major and a $.version that parses, the call returns changed=true and
\* $.version reads back as BumpChartVersion of the old version; without a
\* $.version the call returns an error.
C7_ApplyChartVersionBump ==
    last.op = "ApplyChartVersionBump"
        => LET old == GetString(last.before, VersionPath)
               new == GetString(doc, VersionPath)
           IN  /\ last.lvl = NoChange => (~last.changed /\ new = old)
               /\ (last.lvl # NoChange /\ old.found /\ Parse(old.text).ok)
                      => /\ last.changed /\ ~last.err
                         /\ new.found
                         /\ new.text = BumpChartVersion(old.text, last.lvl).text
               /\ ~old.found => last.err

\* C8: SetString keeps the comment sidecar.  After a successful SetString
\* every comment is at the path and position it had, with its text, the
\* head and line comments of the replaced leaf included, and when a leaf
\* was replaced every comment still has its node; a key that the call
\* created has no comment.
C8_CommentsKept ==
    (last.op = "SetString" /\ ~last.err)
        => /\ doc.CM = last.before.CM
           /\ NodeAt(last.before, last.path) = Null
                  => \A c \in doc.CM : c.path # last.path
           /\ NodeAt(last.before, last.path).kind = "scalar"
                  => \A c \in doc.CM : NodeAt(doc, c.path).kind =
                                           NodeAt(last.before, c.path).kind

C8_Witness ==
    /\ last.op = "SetString" /\ last.changed
    /\ HasComment(last.before.CM, last.path, "head")
    /\ HasComment(last.before.CM, last.path, "line")
    /\ HasComment(doc.CM, last.path, "line")
    /\ NodeAt(doc, last.path) = Scalar(last.value)
    /\ NodeAt(last.before, last.path) # Scalar(last.value)

-----------------------------------------------------------------------------
(* Claims on the directive scanner.                                        *)

\* The line the scanner read last is a content line.
AtContentLine ==
    /\ scanPc = "scan" /\ lineNo > 0
    /\ TrimSpace(lines[lineNo]) # <<>>
    /\ ~IsCommentLine(lines[lineNo])

\* The key unit of a content line "key: value" or "- key: value".
LineEntry(line) == LET us == ContentUnits(line, 0) IN us[Len(us)]

IsScalarAssignment(line) ==
    LineEntry(line).u = "key" /\ LineEntry(line).val # <<>>

\* The path of the scalar that line ln writes in the decoded document.
LinePath(b, ln) == (CHOOSE e \in LinePaths(b) : e.ln = ln).path

\* C1: address agreement.  For every scalar-assignment line of a document,
\* the address the scanner computes for the line (applyLine, then
\* currentPathWithLeaf) is the path of the line's scalar in the parsed
\* document, parseSimpleYAMLPath accepts it, and the walk along its steps
\* ends at the value written on the line.
C1_AddressAgreement ==
    (AtContentLine /\ IsScalarAssignment(lines[lineNo]))
        => LET addr  == currentPathWithLeaf(stack, info)
               steps == parseSimpleYAMLPath(addr)
               w     == WalkTo(yf.Value, steps.steps, 1)
           IN  /\ addr = LinePath(lines, lineNo)
               /\ ~steps.err
               /\ ~w.err
               /\ w.node = Scalar(Unquote(LineEntry(lines[lineNo]).val))

\* The annotation lines of the text whose arguments parse.
Annotations ==
    {a \in 1..Len(lines) :
        /\ IsDirectiveLine(lines[a])
        /\ ~parseDirectiveArgs(DirectiveArgs(lines[a])).err}

IsSkipLine(line) == TrimSpace(line) = <<>> \/ IsCommentLine(line)

\* The first line after line a that is neither blank nor a whole-line
\* comment, 0 when there is none.
NextContent(a) ==
    IF \E n \in (a + 1)..Len(lines) : ~IsSkipLine(lines[n])
    THEN CHOOSE n \in (a + 1)..Len(lines) :
             /\ ~IsSkipLine(lines[n])
             /\ \A j \in (a + 1)..(n - 1) : IsSkipLine(lines[j])
    ELSE 0

\* No other annotation stands between annotation a and line n.
Adjacent(a, n) == \A j \in (a + 1)..(n - 1) : ~IsDirectiveLine(lines[j])

DirectivesOf(a) == {i \in 1..Len(out) : out[i].Line = a}

\* The state part of C9: once the scan has read the line an annotation
\* binds to, a scalar assignment under map keys only, the scan has not
\* failed and holds exactly one directive of the annotation's line, with the
\* path of that line's scalar in the document and the value text written
\* on the line.
C9_Binding ==
    \A a \in Annotations :
        LET n == NextContent(a)
        IN  ( /\ n # 0 /\ Adjacent(a, n) /\ lineNo >= n
              /\ IsScalarAssignment(lines[n])
              /\ ~Contains(LinePath(lines, n), "[")
              /\ (scanPc = "error" => scanErr.line \in {a, n}) )
            => /\ scanPc # "error"
               /\ Cardinality(DirectivesOf(a)) = 1
               /\ \A i \in DirectivesOf(a) :
                      /\ out[i].YAMLPath = LinePath(lines, n)
                      /\ out[i].CurrentText = LineEntry(lines[n]).val

\* The step part of C9: reading a blank line or a comment line that is not
\* an annotation changes neither the pending annotation nor the stack.
C9_SkipKeeps ==
    ( /\ scanPc = "scan" /\ lineNo < Len(lines)
      /\ IsSkipLine(lines[lineNo + 1]) /\ ~IsDirectiveLine(lines[lineNo + 1]) )
        => (pending' = pending /\ stack' = stack)

\* C9: an annotation binds to the first later line that is neither blank nor
\* a whole-line comment; when that line is a scalar assignment nested under
\* map keys only, the scan yields exactly one directive for the annotation,
\* with address $.k1...kn.key, the line's value text and the annotation's
\* line number; blank and plain comment lines in between change neither the
\* pending annotation nor the scope stack.
C9_AnnotationBinds == [](C9_Binding) /\ [][C9_SkipKeeps]_vars

\* C10: the scan fails, returning no directives and an error that names the
\* file and a line, when the line a pending annotation binds to is not a
\* scalar assignment (a key that opens a container, a sequence item without
\* "key: value"), and when the file ends while an annotation is pending.
C10_PendingFails ==
    \A a \in Annotations :
        LET n == NextContent(a)
            failed == /\ scanPc = "error" /\ out = <<>>
                      /\ scanErr.path = FilePath /\ scanErr.line \in {a, n}
        IN  /\ ( /\ n # 0 /\ Adjacent(a, n) /\ lineNo >= n
                 /\ ~IsScalarAssignment(lines[n]) ) => failed
            /\ ( /\ n = 0 /\ Adjacent(a, Len(lines) + 1)
                 /\ scanPc # "scan" ) => failed

\* The value of the token allowPrerelease on an annotation line, <<>> when
\* the line has no such token.
PrereleaseToken(line) ==
    IF \E i \in 1..(Len(line) - 2) : line[i] = "allowPrerelease" /\ line[i + 1] = "="
    THEN LET i == CHOOSE k \in 1..(Len(line) - 2) :
                      line[k] = "allowPrerelease" /\ line[k + 1] = "="
         IN  <<line[i + 2]>>
    ELSE <<>>

\* C25: on an annotation line, allowPrerelease=true sets the flag,
\* allowPrerelease=false clears it, every other value of the token makes
\* the scan fail at that line, and without the token the flag is false.
C25_StrictBoolean ==
    (lineNo > 0 /\ IsDirectiveLine(lines[lineNo]))
        => LET v == PrereleaseToken(lines[lineNo])
           IN  IF v \in {<<"true">>, <<"false">>, <<>>}
               THEN scanPc = "scan" => (pending.AllowPrerelease <=> v = <<"true">>)
               ELSE scanPc = "error" /\ scanErr.line = lineNo

\* The annotation lines of the text.
AnnotationLines == {a \in 1..Len(lines) : IsDirectiveLine(lines[a])}

\* C27: a scan that returns without error returns as many directives as
\* the file has annotation lines, and the number of every annotation line
\* is the Line of exactly one of them.
C27_NoneDiscarded ==
    scanPc = "done"
        => /\ Len(out) = Cardinality(AnnotationLines)
           /\ \A a \in AnnotationLines : Cardinality(DirectivesOf(a)) = 1

IsContentLine(n) == ~IsSkipLine(lines[n])

\* Line n is an item line ("- ...") at indentation ind.
IsItemAt(n, ind) ==
    /\ IsContentLine(n)
    /\ parseYAMLContentLine(lines[n]).isListItem
    /\ parseYAMLContentLine(lines[n]).indent = ind

\* The number of items of its sequence before the item line n: the item
\* lines above it at its indentation, with nothing between them and line n
\* but deeper lines and item lines of that indentation.
ItemOrdinal(n) ==
    LET ind == parseYAMLContentLine(lines[n]).indent
    IN  Cardinality({j \in 1..(n - 1) :
            /\ IsItemAt(j, ind)
            /\ \A i \in (j + 1)..(n - 1) :
                   IsContentLine(i) =>
                       \/ parseYAMLContentLine(lines[i]).indent > ind
                       \/ IsItemAt(i, ind)})

\* The last item line at indentation ind up to line n.
LastItemAt(n, ind) ==
    CHOOSE j \in 1..n : IsItemAt(j, ind) /\ \A i \in (j + 1)..n : ~IsItemAt(i, ind)

\* C26: the k-th item line of a sequence (k from 0) gets the index step
\* [k], and the lines inside that item keep it in their address; the count
\* starts again at 0 only in a new sequence.
C26_ItemIndex ==
    AtContentLine
        => \A s \in 1..Len(stack.steps) :
               stack.steps[s].kind = "index"
                   => stack.steps[s].index =
                          ItemOrdinal(LastItemAt(lineNo, stack.steps[s].indent))

\* The steps of a stack whose recorded indentation is below ind.
StepsBelow(steps, ind) == SelectSeq(steps, LAMBDA s : s.indent < ind)

\* The recorded indentations grow strictly from the bottom to the top.
StrictlyIncreasing(steps) ==
    \A i, j \in 1..Len(steps) : i < j => steps[i].indent < steps[j].indent

\* The step of C28: applyLine on a content line of indentation n leaves
\* the frames that were below n, in their order, under frames of
\* indentation n or more that the line pushed.
C28_LineStep ==
    ( /\ scanPc = "scan" /\ lineNo < Len(lines) /\ lineNo' = lineNo + 1
      /\ ~IsSkipLine(lines[lineNo + 1])
      /\ ~parseYAMLContentLine(lines[lineNo + 1]).err )
        => LET n    == parseYAMLContentLine(lines[lineNo + 1]).indent
               kept == StepsBelow(stack.steps, n)
           IN  /\ Len(stack'.steps) >= Len(kept)
               /\ SubSeq(stack'.steps, 1, Len(kept)) = kept
               /\ \A i \in (Len(kept) + 1)..Len(stack'.steps) :
                      stack'.steps[i].indent >= n
               /\ StrictlyIncreasing(stack'.steps)

\* C28: after applyLine has processed a content line, the recorded
\* indentations of the frames grow strictly from the bottom of the stack
\* to its top, and no frame that was on the stack before the line with an
\* indentation at or above the line's is left on it.
C28_ScopeStack == [](StrictlyIncreasing(stack.steps)) /\ [][C28_LineStep]_vars

\* C28 witness: a line of indentation 2 has closed the map that a key of
\* indentation 2 opened two lines above it; the frame of the key of
\* indentation 0 is the only one left.
C28_Witness ==
    /\ AtContentLine /\ lineNo = 4 /\ info.indent = 2 /\ info.isScalarKV
    /\ parseYAMLContentLine(lines[2]).isMapStart
    /\ parseYAMLContentLine(lines[2]).indent = 2
    /\ parseYAMLContentLine(lines[3]).indent = 4
    /\ Len(stack.steps) = 1 /\ stack.steps[1].indent = 0

-----------------------------------------------------------------------------
(* Claims on the semver engine.                                            *)

\* C4: Compare(a, b) is none when the two texts are equal or one of them
\* does not parse; otherwise it is the level of the first of major, minor,
\* patch in which the two versions differ, and none when all three agree.
C4_Expected(a, b) ==
    LET va == Parse(a)
        vb == Parse(b)
    IN  IF a = b \/ ~va.ok \/ ~vb.ok THEN NoChange
        ELSE IF va.v.Major # vb.v.Major THEN MajorChange
        ELSE IF va.v.Minor # vb.v.Minor THEN MinorChange
        ELSE IF va.v.Patch # vb.v.Patch THEN PatchChange
        ELSE NoChange

C4_Compare ==
    (svOp = "Compare" /\ svPc = "done")
        => /\ svRet = C4_Expected(svA, svB)
           /\ (svA = <<"v">> \o V123 /\ svB = V124 => svRet = PatchChange)
           /\ (svA = V123 /\ svB = V130 => svRet = MinorChange)
           /\ (svA = V123 /\ svB = V200 => svRet = MajorChange)
           /\ (svA = NotSemver => svRet = NoChange)

\* C4 witness: two different texts that both parse and differ only in the
\* patch number, one of them with a leading v, have been compared.
C4_Witness ==
    /\ svOp = "Compare" /\ svPc = "done"
    /\ svA = <<"v", "1", ".", "0", ".", "0">>
    /\ svB = <<"1", ".", "0", ".", "1">>
    /\ svRet = PatchChange

\* C5: ComputeChangeLevel(base, cur) is the maximum of Compare on the two
\* appVersions and of Compare on the two versions of every dependency name
\* that is in both lists (names unique within a list); the dependencies
\* whose name is in one list only do not change it; so it is >= each of
\* these Compare results.
C5_SharedLevels(base, cur) ==
    {Compare(base.AppVersion, cur.AppVersion)} \cup
    {Compare(base.Dependencies[i].Version, cur.Dependencies[j].Version) :
        <<i, j>> \in {p \in (1..Len(base.Dependencies)) \X (1..Len(cur.Dependencies)) :
                        base.Dependencies[p[1]].Name = cur.Dependencies[p[2]].Name}}

C5_OnlyShared(deps, other) ==
    SelectSeq(deps, LAMBDA d : \E k \in 1..Len(other) : other[k].Name = d.Name)

C5_ComputeChangeLevel ==
    (svOp = "ComputeChangeLevel" /\ svPc = "done")
        => /\ svRet \in C5_SharedLevels(svBase, svCur)
           /\ \A l \in C5_SharedLevels(svBase, svCur) : svRet >= l
           /\ svRet = ComputeChangeLevel(
                  [svBase EXCEPT !.Dependencies = C5_OnlyShared(@, svCur.Dependencies)],
                  [svCur EXCEPT !.Dependencies = C5_OnlyShared(@, svBase.Dependencies)])

\* C5 witness: the appVersions differ in the patch number, the shared
\* dependency redis differs in the major number, nginx was added: major.
C5_Witness ==
    /\ svOp = "ComputeChangeLevel" /\ svPc = "done"
    /\ svBase.AppVersion = V123 /\ svCur.AppVersion = V124
    /\ svBase.Dependencies = <<[Name |-> "redis", Version |-> V123]>>
    /\ svCur.Dependencies = <<[Name |-> "nginx", Version |-> V124],
                              [Name |-> "redis", Version |-> V200]>>
    /\ svRet = MajorChange

\* C6: for a current that parses to (major, minor, patch), BumpChartVersion
\* returns (major+1).0.0 for level major, major.(minor+1).0 for level minor
\* and major.minor.(patch+1) for level patch, in decimal.
C6_Expected(v, lvl) ==
    CASE lvl = MajorChange ->
             Itoa(v.Major + 1) \o <<".", "0", ".", "0">>
      [] lvl = MinorChange ->
             Itoa(v.Major) \o <<".">> \o Itoa(v.Minor + 1) \o <<".", "0">>
      [] lvl = PatchChange ->
             Itoa(v.Major) \o <<".">> \o Itoa(v.Minor) \o <<".">> \o Itoa(v.Patch + 1)

C6_BumpChartVersion ==
    (/\ svOp = "BumpChartVersion" /\ svPc = "done"
     /\ Parse(svA).ok /\ svLvl # NoChange)
        => /\ svRet.ok
           /\ svRet.text = C6_Expected(Parse(svA).v, svLvl)
           /\ (svA = V123 /\ svLvl = MajorChange => svRet.text = V200)
           /\ (svA = V123 /\ svLvl = MinorChange => svRet.text = V130)
           /\ (svA = V123 /\ svLvl = PatchChange => svRet.text = V124)

\* C6 witness: a minor bump of v1.9.1 returned 1.10.0.
C6_Witness ==
    /\ svOp = "BumpChartVersion" /\ svPc = "done" /\ svLvl = MinorChange
    /\ svA = <<"v", "1", ".", "9", ".", "1">>
    /\ svRet = [ok |-> TRUE, text |-> <<"1", ".", "1", "0", ".", "0">>]

\* C15: the address parser of SetString accepts exactly the addresses of the
\* grammar that have at least one step, and returns their steps; it
\* rejects "$" alone and every string outside the grammar.
C15_ParseAddress ==
    (svOp = "parseSimpleYAMLPath" /\ svPc = "done") =>
        /\ svRet.err = ~(GrammarSteps(svA).ok /\ GrammarSteps(svA).steps # <<>>)
        /\ ~svRet.err => svRet.steps = GrammarSteps(svA).steps

\* A non-negative decimal integer.
IsNumber(t) == t # <<>> /\ \A i \in 1..Len(t) : IsDigit(t[i])

\* An optional "v", then three non-negative integers separated by dots.
ThreeNumbers(text) ==
    LET s == IF text # <<>> /\ Head(text) = "v" THEN Tail(text) ELSE text
    IN  IF \E i, j \in 1..Len(s) :
               /\ i < j /\ s[i] = "." /\ s[j] = "."
               /\ IsNumber(SubSeq(s, 1, i - 1))
               /\ IsNumber(SubSeq(s, i + 1, j - 1))
               /\ IsNumber(SubSeq(s, j + 1, Len(s)))
        THEN LET i == CHOOSE i \in 1..Len(s) : s[i] = "." /\ IsNumber(SubSeq(s, 1, i - 1))
                 j == CHOOSE j \in (i + 1)..Len(s) : s[j] = "."
             IN  [ok |-> TRUE,
                  v  |-> [Major |-> DigitsVal(SubSeq(s, 1, i - 1)),
                          Minor |-> DigitsVal(SubSeq(s, i + 1, j - 1)),
                          Patch |-> DigitsVal(SubSeq(s, j + 1, Len(s)))]]
        ELSE [ok |-> FALSE, v |-> NoVersion]

\* C19: Parse accepts a text exactly when it is an optional "v" followed by
\* three dot-separated non-negative integers, and returns those numbers;
\* every other text is not a version.
C19_Parse ==
    (svOp = "Parse" /\ svPc = "done") => svRet = ThreeNumbers(svA)

\* C20: BumpChartVersion of a text that parses, at level none, returns the
\* text unchanged, with or without a leading "v"; of a text that does not
\* parse it returns an error at every level.
C20_BumpNone ==
    (svOp = "BumpChartVersion" /\ svPc = "done") =>
        /\ (Parse(svA).ok /\ svLvl = NoChange) => (svRet.ok /\ svRet.text = svA)
        /\ ~Parse(svA).ok => ~svRet.ok

\* The listings that hold the same tags in another order.
Reorderings(tags) ==
    {[i \in 1..Len(tags) |-> tags[p[i]]] : p \in Permutations(1..Len(tags))}

TagSet(tags) == {tags[i] : i \in 1..Len(tags)}

\* The tie-break of the semver strategy on the tags T of the best version:
\* one without a leading "v" when there is one, else the smallest.
TieBreak(T, tag) ==
    /\ tag \in T
    /\ IF \E t \in T : ~HasPrefix(t, <<"v">>)
       THEN ~HasPrefix(tag, <<"v">>)
       ELSE \A t \in T : ~StringLess(t, tag)

C21_Qualifies(t) ==
    /\ NewVersion(t).ok
    /\ (svB.allowPrerelease \/ NewVersion(t).Pre = <<>>)
    /\ (svB.constraint # <<>> =>
            ConstraintCheck(NewConstraint(svB.constraint), NewVersion(t)))

\* C21: of the listed tags that parse as semver, satisfy the constraint if
\* there is one and (unless allowPrerelease) have no prerelease,
\* pickSemverTag returns one of maximum version, among several of that
\* version one without a leading "v" if there is one and else the smallest;
\* it fails when no tag qualifies; the order of the listing does not matter.
C21_PickSemverTag ==
    (/\ svOp = "pickSemverTag" /\ svPc = "done"
     /\ (svB.constraint = <<>> \/ NewConstraint(svB.constraint).ok))
        => LET Q == {t \in TagSet(svA) : C21_Qualifies(t)}
               T == {t \in Q : \A u \in Q : ~LessThan(NewVersion(t), NewVersion(u))}
           IN  /\ IF Q = {} THEN ~svRet.ok
                  ELSE svRet.ok /\ TieBreak(T, svRet.tag)
               /\ \A l \in Reorderings(svA) :
                      pickSemverTag(l, svB.constraint, svB.allowPrerelease) = svRet

\* C21 witness: 1.0.0 was listed after v1.0.0 and 0.9.0, and was returned.
C21_Witness ==
    /\ svOp = "pickSemverTag" /\ svPc = "done"
    /\ svA = <<Tv100, T090, T100>>
    /\ svB = [constraint |-> <<>>, allowPrerelease |-> FALSE]
    /\ svRet = Picked(T100)

C22_Captured(t) ==
    /\ MatchString(svB.tagRegex, t)
    /\ NewVersion(Submatch(svB.tagRegex, t)).ok
    /\ (svB.allowPrerelease \/ NewVersion(Submatch(svB.tagRegex, t)).Pre = <<>>)

\* C22: with a capture group, pickRegexTag returns, of the matching tags
\* whose first group parses as semver, one of maximum captured version,
\* and among several of that version one without a leading "v" if there is
\* one, else the smallest of them.
C22_RegexCapture ==
    (/\ svOp = "pickRegexTag" /\ svPc = "done"
     /\ svB.tagRegex.valid /\ svB.tagRegex.group)
        => LET Q == {t \in TagSet(svA) : C22_Captured(t)}
               T == {t \in Q : \A u \in Q :
                        ~LessThan(NewVersion(Submatch(svB.tagRegex, t)),
                                  NewVersion(Submatch(svB.tagRegex, u)))}
           IN  Q # {} => svRet.ok /\ TieBreak(T, svRet.tag)

\* C23: without a capture group, pickRegexTag returns the greatest, in the
\* order of strings, of the listed tags that match, in every order of the
\* listing.
C23_RegexGreatest ==
    (/\ svOp = "pickRegexTag" /\ svPc = "done"
     /\ svB.tagRegex.valid /\ ~svB.tagRegex.group)
        => LET M == {t \in TagSet(svA) : MatchString(svB.tagRegex, t)}
           IN  M # {} =>
                   /\ svRet.ok /\ svRet.tag \in M
                   /\ \A t \in M : ~StringLess(svRet.tag, t)

\* C24: pickLiteralTag returns a tag only when exactly one listed tag
\* matches tagRegex, and then that tag; with no match it fails; with two
\* or more it fails with the error that lists all matching tags, sorted.
C24_PickLiteralTag ==
    (svOp = "pickLiteralTag" /\ svPc = "done" /\ svB.tagRegex.valid)
        => LET M == {t \in TagSet(svA) : MatchString(svB.tagRegex, t)}
           IN  /\ svRet.ok <=> Cardinality(M) = 1
               /\ svRet.ok => svRet.tag \in M
               /\ M = {} => svRet.err = "no tags match tagRegex"
               /\ Cardinality(M) >= 2 =>
                      /\ svRet.err = "matched multiple tags"
                      /\ TagSet(svRet.matches) = M
                      /\ Len(svRet.matches) = Cardinality(M)
                      /\ \A i, j \in 1..Len(svRet.matches) :
                             i < j => StringLess(svRet.matches[i], svRet.matches[j])

\* C24 witness: ^1 matched 1.0.0 and 1.0 of a listing that held v1.0.0
\* too, and the error lists 1.0 before 1.0.0.
C24_Witness ==
    /\ svOp = "pickLiteralTag" /\ svPc = "done"
    /\ svA = <<Tv100, T100, T10>>
    /\ svB.tagRegex = Regexp(<<"1">>, FALSE, FALSE, TRUE)
    /\ svRet = PickError("matched multiple tags", <<T10, T100>>)


\* C29: for every current that parses, with or without a leading "v", and
\* every level, BumpChartVersion returns a text that parses, and Compare of
\* the current and that text is the level.
C29_BumpCompare ==
    (svOp = "BumpChartVersion" /\ svPc = "done" /\ Parse(svA).ok)
        => /\ svRet.ok
           /\ Parse(svRet.text).ok
           /\ Compare(svA, svRet.text) = svLvl

\* C29 witness: a patch bump of v1.1.9 returned 1.1.10, a patch change.
C29_Witness ==
    /\ svOp = "BumpChartVersion" /\ svPc = "done" /\ svLvl = PatchChange
    /\ svA = <<"v", "1", ".", "1", ".", "9">>
    /\ svRet.text = <<"1", ".", "1", ".", "1", "0">>
    /\ Compare(svA, svRet.text) = PatchChange

-----------------------------------------------------------------------------
(* Claims on main.                                                         *)

\* C16: the output changed=true is written only in a run with --write in
\* which a file was written; a run that completes writes changed=false in
\* every other case (when GITHUB_OUTPUT names a file).
C16_ChangedOutput ==
    /\ \A k \in 1..Len(mainOutput) :
           mainOutput[k] = "changed=true" => (mainFlags.write /\ mainWrites # <<>>)
    /\ mainPc = "done" =>
           mainOutput = IF ~mainFlags.githubOutput THEN <<>>
                        ELSE IF mainFlags.write /\ mainWrites # <<>>
                        THEN <<"changed=true">>
                        ELSE <<"changed=false">>

C16_Witness ==
    /\ mainPc = "done" /\ mainOutput = <<"changed=true">>
    /\ mainWrites # <<>> /\ ~mainRun.didWriteChart

\* C17: a run without --write writes no file, whatever --update-images and
\* --update-deps are, and prints the rendered chart to stdout; a run with
\* --write prints nothing to stdout.
C17_DryRun ==
    /\ ~mainFlags.write => (mainWrites = <<>> /\ mainDisk = mainEnv.disk)
    /\ mainFlags.write => mainStdout = <<>>
    /\ (~mainFlags.write /\ mainPc \in {"output", "done"}) =>
           mainStdout = <<BumpChart(mainEnv.base, mainEnv.disk.chart).out>>

C17_Witness ==
    /\ mainPc = "done" /\ ~mainFlags.write
    /\ mainFlags.updateImages /\ mainFlags.updateDeps
    /\ mainEnv.tag = Resolved(V210) /\ mainEnv.latest = Resolved(V110)
    /\ mainEnv.disk.chart = ChartYaml(V123, TRUE, TRUE)
    /\ mainStdout # <<>>

\* C18: in a run the writes of the image and dependency updates all come
\* before the current chart is read; the chart read is the chart the
\* updates left on disk, and the change level and the bumped version are
\* those of that chart.
C18_UpdatesFirst ==
    /\ mainPc \in {"writeChart", "print", "output", "done"} =>
           \A k \in 1..Len(mainWrites) :
               mainWrites[k].by \in {"images", "deps"} => k <= mainRun.readAt
    /\ mainPc = "writeChart" =>
           /\ mainRun.curBytes = mainDisk.chart
           /\ \E r \in {BumpChart(mainEnv.base, mainDisk.chart)} :
                  /\ ~r.err
                  /\ mainRun.lvl = r.lvl
                  /\ mainRun.changed = r.changed
                  /\ mainRun.out = r.out

C18_Witness ==
    /\ mainPc = "writeChart" /\ mainFlags.write
    /\ mainEnv.base = mainEnv.disk.chart
    /\ mainDisk.chart # mainEnv.disk.chart
    /\ mainRun.lvl = MinorChange
    /\ mainWrites # <<>>

\* The update of the images has run in this state.
ImagesUpdated ==
    /\ mainFlags.write /\ mainFlags.updateImages
    /\ mainPc \notin {"start", "updateImages"}

\* The directives of a file as it was when the run started.
ScannedOf(file) == ScanFileForImageDirectives(file, mainEnv.disk[file])

\* A directive of the file fails: the scan finds directives, and applying
\* them in their order to the parsed file ends in an error.
DirectiveFails(file) ==
    /\ ~ScannedOf(file).err /\ ScannedOf(file).dirs # <<>>
    /\ ApplyDirectives(ParseBytes(mainEnv.disk[file]), ScannedOf(file).dirs,
                       1, FALSE, mainEnv).err

ImageWrites(file) ==
    {k \in 1..Len(mainWrites) : mainWrites[k] = WriteEvent("images", file)}

\* The directive i of the file resolves a digest and an earlier directive
\* sets the tag next to it.
DigestAfterTag(dirs, i) ==
    /\ StrategyOf(dirs[i]) = <<"digest">>
    /\ \E j \in 1..(i - 1) :
           dirs[j].YAMLPath = parentYAMLPath(dirs[i].YAMLPath) \o <<".", "tag">>

\* C30: the directives of a file are applied in the order of their lines
\* to one document, so that a digest whose tag an earlier directive sets is
\* the digest of the tag that was set, not of the tag that was scanned;
\* the file is written at most once, with all its directives applied, and
\* not at all when one of its directives fails.
C30_OneDocument ==
    ImagesUpdated =>
        \A file \in {"chart", "values"} :
            /\ Cardinality(ImageWrites(file)) <= 1
            /\ DirectiveFails(file) => ImageWrites(file) = {}
            /\ (file = "values" /\ ImageWrites(file) # {}) =>
                   LET dirs == ScannedOf(file).dirs
                       f    == ParseBytes(mainDisk.values)
                   IN  \A i \in 1..Len(dirs) :
                           DigestAfterTag(dirs, i) =>
                               /\ GetString(f, parentYAMLPath(dirs[i].YAMLPath)
                                                   \o <<".", "tag">>).text = mainEnv.tag.text
                               /\ GetString(f, dirs[i].YAMLPath).text
                                      = mainEnv.digest.text \o mainEnv.tag.text

\* C30 witness: the tag 1.0.0 had an annotation and the digest after it an
\* annotation of strategy digest; the registry answered 2.1.0 and the file
\* was written once, with the digest of 2.1.0.
C30_Witness ==
    /\ ImagesUpdated /\ mainPc = "done"
    /\ mainEnv.disk.values = TagThen(DigestArgs)
    /\ mainEnv.tag = Resolved(V210)
    /\ Cardinality(ImageWrites("values")) = 1
    /\ mainDisk.values =
           << <<"image", ":">>,
              AnnotationLine(2, GoodArgs), <<" ", " ", "tag", ":", " ">> \o V210,
              AnnotationLine(2, DigestArgs),
              <<" ", " ", "digest", ":", " ", "sha">> \o V210 >>

====
